---- MODULE Spec2Model ----
(***************************************************************************)
(* Key rotation core of crypto-core: the per-purpose stack of versioned    *)
(* keys (KeyRotationManager) with its KeyRotationScheduler, the            *)
(* VersionedKey and RotationPolicy objects, the commit-reveal-verify       *)
(* protocol of CrossDeviceRotationSync and the EmergencyRotationManager.   *)
(*                                                                         *)
(* The repository holds two KeyRotationManager sources: the single-file    *)
(* src/key_rotation.rs ("legacy") and src/key_rotation/manager.rs          *)
(* ("modular").  `variant` selects which one a behaviour runs.             *)
(***************************************************************************)
EXTENDS Integers, Sequences, FiniteSets, TLC

\* ------------------------------------------------------------------ bounds
MaxMinor == 3
\* Callers hold KeyVersion values built at the times 0..MaxBuiltAt.
MaxBuiltAt == 1
MaxAgeDays == 2
MaxUsage == 1

\* -------------------------------------------------------- program constants
\* migration_progress is an f32 in [0.0, 1.0]; it is counted in halves, so
\* ProgressOne stands for 1.0.
ProgressOne == 2
\* KeyRotationManager::new sets migration_batch_size to 100.
DefaultBatchSize == 100
\* complete_key_migration keeps at most this many keys per purpose.
MaxRetainedKeys == 3
HoursPerDay == 24
\* The largest max_age_days whose product with 24 fits a u32, and 2^32 / 8.
MaxDaysWithoutOverflow == 178956970
TwoPow29 == 536870912

Purposes == {"CycleData"}
Variants == {"legacy", "modular"}
\* Option<T>: <<>> is None, <<x>> is Some(x).
None == <<>>
Some(x) == <<x>>

VARIABLES
    variant,              \* which KeyRotationManager source is running
    versioned_keys,       \* purpose -> list of VersionedKey, newest first
    migration_batch_size, \* KeyRotationManager.migration_batch_size
    now,                  \* the clock read by Utc::now(); no stored key carries an
                          \* expiry, so no call's outcome depends on its advance
    hist_uncompleted,     \* purpose -> a rotation was created and no complete_key_migration call followed
    hist_pending,         \* purpose -> a rotation was created and neither completed, rolled back nor revoked
    last,                 \* the last call and what it returned
    \* CrossDeviceRotationSync (key_rotation/sync.rs)
    participating_devices, \* RotationCoordinator.participating_devices
    coordination_state,    \* RotationCoordinator.coordination_state
    commitment_phase,      \* device -> DeviceCommitment
    reveal_phase,          \* device -> DeviceReveal
    verification_phase,    \* device -> VerificationProof
    protocol_state,        \* ZeroKnowledgeProtocol.protocol_state
    sync_state,            \* CrossDeviceRotationSync.sync_state
    \* A VersionedKey held by a caller (key_rotation/versioned_key.rs)
    vk,
    \* EmergencyRotationManager (key_rotation/emergency.rs): a record of its fields
    emergency,
    \* The manager's KeyRotationScheduler: a record of its fields
    scheduler,
    \* A RotationPolicy held by a caller (key_rotation/scheduler.rs)
    policy,
    \* MultiDeviceProtocol (multi_device.rs): device_registry and max_devices
    multi_device,
    \* RecoverySystem (recovery.rs): key_backups, recovery_attempts and its limits
    recovery,
    \* ProgressiveMigrationManager (key_rotation/migration.rs): batch_size and migration_state
    migration

kvars == <<variant, versioned_keys, migration_batch_size, now, hist_uncompleted, hist_pending,
           scheduler>>

svars == <<participating_devices, coordination_state, commitment_phase, reveal_phase,
           verification_phase, protocol_state, sync_state>>

xvars == <<multi_device, recovery, migration>>

mvars == <<kvars, svars, vk, emergency, policy, xvars, last>>

\* ------------------------------------------------------------------ helpers
Range(s) == {s[i] : i \in 1..Len(s)}

RECURSIVE RemoveIndices(_, _)
\* Vec::remove applied to every index of S, highest index first.
RemoveIndices(s, S) ==
    IF S = {} THEN s
    ELSE LET i == CHOOSE x \in S : \A y \in S : y <= x
             t == [j \in 1..(Len(s) - 1) |-> IF j < i THEN s[j] ELSE s[j + 1]]
         IN  RemoveIndices(t, S \ {i})

\* ----------------------------------------------------------------- KeyVersion
\* KeyVersion derives PartialEq, so two versions are equal only if created_at
\* and expires_at agree as well as the numbers.
KeyVersion_new(major, minor, patch) ==
    [major |-> major, minor |-> minor, patch |-> patch,
     created_at |-> now, expires_at |-> None]

\* A KeyVersion that a caller built at time t.
KeyVersion_built(major, minor, patch, t) ==
    [major |-> major, minor |-> minor, patch |-> patch,
     created_at |-> t, expires_at |-> None]

\* "major.minor.patch"
to_string(v) == <<v.major, v.minor, v.patch>>

is_expired(v) == v.expires_at # None /\ now > v.expires_at[1]

compare_version(a, b) ==
    IF a.major < b.major THEN -1
    ELSE IF a.major > b.major THEN 1
    ELSE IF a.minor < b.minor THEN -1
    ELSE IF a.minor > b.minor THEN 1
    ELSE IF a.patch < b.patch THEN -1
    ELSE IF a.patch > b.patch THEN 1
    ELSE 0

\* --------------------------------------------------------------- VersionedKey
\* audit_log is a Vec<String> that the code only pushes to and never reads
\* back, so the state keeps its growth alone: the field counts the entries the
\* call that is running (or ran last) has pushed onto the key.
VersionedKey_new(version) ==
    [version |-> version,
     status |-> "Active",
     predecessor_version |-> None,
     predecessor_versions |-> <<>>,
     supported_decryption_versions |-> <<version>>,
     migration_progress |-> 0,
     audit_log |-> 1]

\* The legacy struct has neither predecessor_versions nor
\* supported_decryption_versions; both stay empty and are never read.
LegacyVersionedKey_new(version) ==
    [version |-> version,
     status |-> "Active",
     predecessor_version |-> None,
     predecessor_versions |-> <<>>,
     supported_decryption_versions |-> <<>>,
     migration_progress |-> 0,
     audit_log |-> 1]

set_status(k, status) ==
    [k EXCEPT !.status = status, !.audit_log = @ + 1]

clamp(progress) ==
    IF progress < 0 THEN 0 ELSE IF progress > ProgressOne THEN ProgressOne ELSE progress

set_migration_progress(k, progress) ==
    [k EXCEPT !.migration_progress = clamp(progress), !.audit_log = @ + 1]

is_usable(k) == k.status \in {"Active", "Migrating"} /\ ~is_expired(k.version)

add_predecessor_version(k, predecessor) ==
    IF predecessor \notin Range(k.predecessor_versions)
    THEN [k EXCEPT !.predecessor_versions = Append(@, predecessor),
                   !.supported_decryption_versions = Append(@, predecessor),
                   !.audit_log = @ + 1]
    ELSE k

set_predecessor_version(k, version) == add_predecessor_version(k, version)

\* The allow-list test of versioned_key.rs.
can_decrypt_data_from_version(k, data_version) ==
    data_version \in Range(k.supported_decryption_versions)

\* The same-major heuristic of key_rotation.rs.
legacy_can_decrypt_data_from_version(k, data_version) ==
    \/ k.version = data_version
    \/ (k.version.major = data_version.major /\ k.version.major >= data_version.major)
    \/ (k.predecessor_version = Some(data_version) /\ k.status = "Migrating")

\* --------------------------------------------------------------- RotationPolicy
SecurityEventTypes == {"DeviceCompromise", "UnauthorizedAccess", "SuspiciousActivity",
                       "DataBreach", "NetworkIntrusion", "MalwareDetected", "UserReported"}

RotationTriggers == {"TimeBased", "UsageBased", "EventBased", "Manual", "Emergency"}

RotationPolicy_new(max_age_days) ==
    [max_age_days |-> max_age_days,
     max_usage_count |-> None,
     trigger_type |-> "TimeBased",
     security_event_triggers |-> <<"DeviceCompromise", "DataBreach", "UnauthorizedAccess">>,
     emergency_rotation_enabled |-> TRUE]

\* Vec::retain(|e| *e != event_type)
RECURSIVE retain_other(_, _)
retain_other(events, event_type) ==
    IF events = <<>> THEN <<>>
    ELSE IF Head(events) = event_type THEN retain_other(Tail(events), event_type)
    ELSE <<Head(events)>> \o retain_other(Tail(events), event_type)

has_security_event_trigger(pol, event_type) ==
    event_type \in Range(pol.security_event_triggers)

\* `self.max_age_days * 24` is a u32 product: beyond u32::MAX it panics in a
\* build with overflow checks and wraps modulo 2^32 in one without.
mul_24_overflows(max_age_days) == max_age_days > MaxDaysWithoutOverflow

\* current_age_hours >= (max_age_days * 24) mod 2^32, both sides divided by 8:
\* (24 * d) mod 2^32 = 8 * ((3 * d) mod 2^29).
age_reached_wrapping(current_age_hours, max_age_days) ==
    (current_age_hours \div 8) >= ((3 * (max_age_days % TwoPow29)) % TwoPow29)

usage_reached(pol, usage_count) ==
    pol.max_usage_count # None /\ usage_count >= pol.max_usage_count[1]

Bool(b) == IF b THEN "true" ELSE "false"

\* The outcomes of should_trigger_rotation: "true", "false" or "panic".
should_trigger_rotation_outcomes(pol, current_age_hours, usage_count, security_event) ==
    IF /\ security_event # None
       /\ pol.emergency_rotation_enabled
       /\ has_security_event_trigger(pol, security_event[1])
    THEN {"true"}
    ELSE CASE pol.trigger_type = "TimeBased" ->
                  IF mul_24_overflows(pol.max_age_days)
                  THEN {"panic", Bool(age_reached_wrapping(current_age_hours, pol.max_age_days))}
                  ELSE {Bool(age_reached_wrapping(current_age_hours, pol.max_age_days))}
           [] pol.trigger_type = "UsageBased" -> {Bool(usage_reached(pol, usage_count))}
           [] pol.trigger_type = "EventBased" -> {Bool(security_event # None)}
           [] pol.trigger_type = "Manual" -> {"false"}
           [] pol.trigger_type = "Emergency" -> {"true"}

PCall(op, result) ==
    [op |-> op, result |-> result, age_hours |-> 0, usage_count |-> 0, event |-> None]

set_max_usage_count(count) ==
    /\ policy' = [policy EXCEPT !.max_usage_count = Some(count)]
    /\ last' = PCall("set_max_usage_count", "Ok")
    /\ UNCHANGED <<kvars, svars, vk, emergency, xvars>>

set_trigger_type(trigger_type) ==
    /\ policy' = [policy EXCEPT !.trigger_type = trigger_type]
    /\ last' = PCall("set_trigger_type", "Ok")
    /\ UNCHANGED <<kvars, svars, vk, emergency, xvars>>

add_security_event_trigger(event_type) ==
    /\ policy' = IF has_security_event_trigger(policy, event_type) THEN policy
                 ELSE [policy EXCEPT !.security_event_triggers = Append(@, event_type)]
    /\ last' = PCall("add_security_event_trigger", "Ok")
    /\ UNCHANGED <<kvars, svars, vk, emergency, xvars>>

remove_security_event_trigger(event_type) ==
    /\ policy' = [policy EXCEPT !.security_event_triggers = retain_other(@, event_type)]
    /\ last' = PCall("remove_security_event_trigger", "Ok")
    /\ UNCHANGED <<kvars, svars, vk, emergency, xvars>>

set_emergency_rotation_enabled(enabled) ==
    /\ policy' = [policy EXCEPT !.emergency_rotation_enabled = enabled]
    /\ last' = PCall("set_emergency_rotation_enabled", "Ok")
    /\ UNCHANGED <<kvars, svars, vk, emergency, xvars>>

should_trigger_rotation(current_age_hours, usage_count, security_event) ==
    /\ \E outcome \in should_trigger_rotation_outcomes(policy, current_age_hours,
                                                        usage_count, security_event) :
           last' = [PCall("should_trigger_rotation", outcome)
                       EXCEPT !.age_hours = current_age_hours,
                              !.usage_count = usage_count,
                              !.event = security_event]
    /\ UNCHANGED <<kvars, svars, vk, emergency, policy, xvars>>

MaxAgeDaysInputs == (0..MaxAgeDays) \cup {MaxDaysWithoutOverflow, MaxDaysWithoutOverflow + 1}
AgeHoursInputs == {d * HoursPerDay + k : d \in 0..MaxAgeDays, k \in {0, 8, HoursPerDay - 1}}
UsageInputs == 0..MaxUsage
EventTypeInputs == {"DeviceCompromise", "SuspiciousActivity"}
EventInputs == {None} \cup {Some(e) : e \in EventTypeInputs}

PNext ==
    \/ \E count \in UsageInputs : set_max_usage_count(count)
    \/ \E t \in RotationTriggers : set_trigger_type(t)
    \/ \E e \in EventTypeInputs : add_security_event_trigger(e)
    \/ \E e \in EventTypeInputs : remove_security_event_trigger(e)
    \/ \E b \in BOOLEAN : set_emergency_rotation_enabled(b)
    \/ \E h \in AgeHoursInputs, u \in UsageInputs, e \in EventInputs :
           should_trigger_rotation(h, u, e)

\* No RotationPolicy object has been built.
NoPolicy == policy = None

\* ---------------------------------------------------------- KeyRotationScheduler
\* Times are counted in days; the three maps are functions on the purposes
\* that have an entry.
KeyRotationScheduler_new ==
    [rotation_intervals |-> <<>>, next_rotations |-> <<>>, rotation_policies |-> <<>>,
     usage_tracking |-> <<>>]

\* HashMap::insert
Insert(map, key, value) ==
    [k \in (DOMAIN map) \cup {key} |-> IF k = key THEN value ELSE map[k]]

scheduler_set_rotation_policy(sch, purpose, pol) ==
    [sch EXCEPT !.rotation_intervals = Insert(@, purpose, pol.max_age_days),
                !.rotation_policies = Insert(@, purpose, pol),
                !.next_rotations = Insert(@, purpose, now + pol.max_age_days)]

is_rotation_due(sch, purpose) ==
    purpose \in DOMAIN sch.next_rotations /\ sch.next_rotations[purpose] <= now

force_rotation(sch, purpose) ==
    [sch EXCEPT !.next_rotations = Insert(@, purpose, now)]

update_next_rotation(sch, purpose) ==
    IF purpose \in DOMAIN sch.rotation_intervals
    THEN [sch EXCEPT !.next_rotations =
                         Insert(@, purpose, now + sch.rotation_intervals[purpose])]
    ELSE sch

get_usage_count(sch, purpose) ==
    IF purpose \in DOMAIN sch.usage_tracking THEN sch.usage_tracking[purpose] ELSE 0

\* Mutant: the rotation is forced only once the count has passed the maximum.
usage_limit_reached_late(sch, purpose, count) ==
    /\ purpose \in DOMAIN sch.rotation_policies
    /\ sch.rotation_policies[purpose].max_usage_count # None
    /\ count > sch.rotation_policies[purpose].max_usage_count[1]

usage_limit_reached(sch, purpose, count) ==
    /\ purpose \in DOMAIN sch.rotation_policies
    /\ sch.rotation_policies[purpose].max_usage_count # None
    /\ count >= sch.rotation_policies[purpose].max_usage_count[1]

scheduler_track_key_usage(sch, purpose) ==
    LET count == get_usage_count(sch, purpose) + 1
        counted == [sch EXCEPT !.usage_tracking = Insert(@, purpose, count)]
    IN  IF usage_limit_reached(sch, purpose, count)
        THEN force_rotation(counted, purpose)
        ELSE counted

\* ------------------------- a KeyRotationScheduler driven through its own methods
MaxTrackedUsage == 3
MaxNow == 1

UsagePurposes == {"CycleData", "Preferences"}
UsagePolicyInputs ==
    {[RotationPolicy_new(d) EXCEPT !.max_usage_count = u] :
        d \in {1, MaxAgeDays}, u \in {None, Some(0), Some(MaxTrackedUsage - 1)}}

UCall(op, purpose) == [op |-> op, purpose |-> purpose, result |-> "Ok"]

schedule_policy(purpose, pol) ==
    /\ scheduler' = scheduler_set_rotation_policy(scheduler, purpose, pol)
    /\ last' = UCall("set_rotation_policy", purpose)
    /\ UNCHANGED <<variant, versioned_keys, migration_batch_size, now, hist_uncompleted,
                   hist_pending, svars, vk, emergency, policy, xvars>>

track_key_usage(purpose) ==
    /\ get_usage_count(scheduler, purpose) < MaxTrackedUsage
    /\ scheduler' = scheduler_track_key_usage(scheduler, purpose)
    /\ last' = UCall("track_key_usage", purpose)
    /\ UNCHANGED <<variant, versioned_keys, migration_batch_size, now, hist_uncompleted,
                   hist_pending, svars, vk, emergency, policy, xvars>>

reset_usage_count(purpose) ==
    /\ scheduler' = [scheduler EXCEPT !.usage_tracking = Insert(@, purpose, 0)]
    /\ last' = UCall("reset_usage_count", purpose)
    /\ UNCHANGED <<variant, versioned_keys, migration_batch_size, now, hist_uncompleted,
                   hist_pending, svars, vk, emergency, policy, xvars>>

reschedule(purpose) ==
    /\ scheduler' = update_next_rotation(scheduler, purpose)
    /\ last' = UCall("update_next_rotation", purpose)
    /\ UNCHANGED <<variant, versioned_keys, migration_batch_size, now, hist_uncompleted,
                   hist_pending, svars, vk, emergency, policy, xvars>>

\* Time passes between two calls.
advance_clock ==
    /\ now < MaxNow
    /\ now' = now + 1
    /\ last' = UCall("advance_clock", "None")
    /\ UNCHANGED <<variant, versioned_keys, migration_batch_size, hist_uncompleted,
                   hist_pending, scheduler, svars, vk, emergency, policy, xvars>>

UNext ==
    \/ \E p \in UsagePurposes, pol \in UsagePolicyInputs : schedule_policy(p, pol)
    \/ \E p \in UsagePurposes : track_key_usage(p)
    \/ \E p \in UsagePurposes : reset_usage_count(p)
    \/ \E p \in UsagePurposes : reschedule(p)
    \/ advance_clock

\* ----------------------------------------------------------- KeyRotationManager
began_log(keys) == [i \in 1..Len(keys) |-> [keys[i] EXCEPT !.audit_log = 0]]

\* The map as a call finds it: nothing pushed yet by this call.
Began == [q \in DOMAIN versioned_keys |-> began_log(versioned_keys[q])]

Keys(p) == IF p \in DOMAIN versioned_keys THEN Began[p] ELSE <<>>

HasKey(p) == Keys(p) # <<>>

Newest(p) == Keys(p)[1]

SetKeys(p, ks) ==
    [q \in (DOMAIN versioned_keys) \cup {p} |-> IF q = p THEN ks ELSE Began[q]]

Call(op, p, result) == [op |-> op, purpose |-> p, result |-> result, version |-> None, removed |-> 0]

KeysInit ==
    /\ variant \in Variants
    /\ versioned_keys = <<>>
    /\ migration_batch_size = DefaultBatchSize
    /\ now = 0
    /\ hist_uncompleted = [p \in Purposes |-> FALSE]
    /\ hist_pending = [p \in Purposes |-> FALSE]
    /\ scheduler = KeyRotationScheduler_new

\* Mutant: the migration-in-progress check is left out.
latest_is_migrating_unchecked(p) == FALSE

\* `matches!(latest.status(), KeyStatus::Migrating)` on keys.first().
latest_is_migrating(p) == HasKey(p) /\ Newest(p).status = "Migrating"

\* Mutant: the minor version is not incremented.
next_version_repeated(p) ==
    IF HasKey(p)
    THEN KeyVersion_new(Newest(p).version.major, Newest(p).version.minor, 0)
    ELSE KeyVersion_new(1, 0, 0)

next_version(p) ==
    IF HasKey(p)
    THEN KeyVersion_new(Newest(p).version.major, Newest(p).version.minor + 1, 0)
    ELSE KeyVersion_new(1, 0, 0)

\* Mutant: the new key is pushed to the back instead of inserted at index 0.
keys_after_create_pushed_back(p) ==
    LET fresh == IF variant = "legacy" THEN LegacyVersionedKey_new(next_version(p))
                 ELSE VersionedKey_new(next_version(p))
        current_key == set_status(Newest(p), "Deprecated")
        linked == IF variant = "legacy"
                  THEN [fresh EXCEPT !.predecessor_version = Some(current_key.version)]
                  ELSE set_predecessor_version(fresh, current_key.version)
        versioned_key == set_status(linked, "Migrating")
    IN  IF HasKey(p)
        THEN <<current_key>> \o Tail(Keys(p)) \o <<versioned_key>>
        ELSE <<fresh>>

\* Mutant: the previous newest key keeps its status.
keys_after_create_undeprecated(p) ==
    LET fresh == IF variant = "legacy" THEN LegacyVersionedKey_new(next_version(p))
                 ELSE VersionedKey_new(next_version(p))
        linked == IF variant = "legacy"
                  THEN [fresh EXCEPT !.predecessor_version = Some(Newest(p).version)]
                  ELSE set_predecessor_version(fresh, Newest(p).version)
        versioned_key == set_status(linked, "Migrating")
    IN  IF HasKey(p)
        THEN <<versioned_key>> \o Keys(p)
        ELSE <<fresh>>

\* The list after a successful create_new_key_version.
keys_after_create(p) ==
    LET fresh == IF variant = "legacy" THEN LegacyVersionedKey_new(next_version(p))
                 ELSE VersionedKey_new(next_version(p))
        current_key == set_status(Newest(p), "Deprecated")
        linked == IF variant = "legacy"
                  THEN [fresh EXCEPT !.predecessor_version = Some(current_key.version)]
                  ELSE set_predecessor_version(fresh, current_key.version)
        versioned_key == set_status(linked, "Migrating")
    IN  IF HasKey(p)
        THEN <<versioned_key>> \o <<current_key>> \o Tail(Keys(p))
        ELSE <<fresh>>

\* Mutant: the scheduler is updated before the migration check.
scheduler_after_rejected_create_updated(p) == update_next_rotation(scheduler, p)

\* The early return of a rejected create_new_key_version comes before the
\* scheduler is touched.
scheduler_after_rejected_create(p) == scheduler

create_new_key_version(p) ==
    /\ IF latest_is_migrating(p)
       THEN /\ last' = Call("create_new_key_version", p, "MigrationInProgress")
            /\ versioned_keys' = Began
            /\ scheduler' = scheduler_after_rejected_create(p)
            /\ UNCHANGED <<hist_uncompleted, hist_pending>>
       ELSE /\ next_version(p).minor <= MaxMinor
            /\ versioned_keys' = SetKeys(p, keys_after_create(p))
            /\ hist_uncompleted' = [hist_uncompleted EXCEPT ![p] = HasKey(p)]
            /\ hist_pending' = [hist_pending EXCEPT ![p] = HasKey(p)]
            /\ scheduler' = update_next_rotation(scheduler, p)
            /\ last' = Call("create_new_key_version", p, "Ok")
    /\ UNCHANGED <<variant, migration_batch_size, now, svars, vk, emergency, policy, xvars>>

\* manager.rs: force_rotate_key flags the purpose in the scheduler and then
\* calls create_new_key_version, whose result it returns.
force_rotate_key(p) ==
    /\ variant = "modular"
    /\ IF latest_is_migrating(p)
       THEN /\ last' = Call("force_rotate_key", p, "MigrationInProgress")
            /\ versioned_keys' = Began
            /\ scheduler' = force_rotation(scheduler, p)
            /\ UNCHANGED <<hist_uncompleted, hist_pending>>
       ELSE /\ next_version(p).minor <= MaxMinor
            /\ versioned_keys' = SetKeys(p, keys_after_create(p))
            /\ hist_uncompleted' = [hist_uncompleted EXCEPT ![p] = HasKey(p)]
            /\ hist_pending' = [hist_pending EXCEPT ![p] = HasKey(p)]
            /\ scheduler' = update_next_rotation(force_rotation(scheduler, p), p)
            /\ last' = Call("force_rotate_key", p, "Ok")
    /\ UNCHANGED <<variant, migration_batch_size, now, svars, vk, emergency, policy, xvars>>

PolicyInputs == {RotationPolicy_new(d) : d \in 0..MaxAgeDays}

set_rotation_policy(p, pol) ==
    /\ scheduler' = scheduler_set_rotation_policy(scheduler, p, pol)
    /\ versioned_keys' = Began
    /\ last' = Call("set_rotation_policy", p, "Ok")
    /\ UNCHANGED <<variant, migration_batch_size, now, hist_uncompleted, hist_pending,
                   svars, vk, emergency, policy, xvars>>

\* The purposes check_rotation_due returns: the array is filled in the
\* HashMap's iteration order, so it is kept as a set.
rotation_due == {p \in DOMAIN versioned_keys : is_rotation_due(scheduler, p)}

check_rotation_due ==
    /\ versioned_keys' = Began
    /\ last' = Call("check_rotation_due", "None", "Ok") @@ [due |-> rotation_due]
    /\ UNCHANGED <<variant, scheduler, migration_batch_size, now, hist_uncompleted,
                   hist_pending, svars, vk, emergency, policy, xvars>>

\* KeyRotationScheduler::clone. key_rotation.rs derives Clone for its scheduler,
\* which copies every field; manager.rs implements Clone for the scheduler of
\* scheduler.rs by hand as KeyRotationScheduler::new().
KeyRotationScheduler_clone(sch) ==
    IF variant = "modular" THEN KeyRotationScheduler_new ELSE sch

\* get_scheduler returns self.scheduler.clone().
get_scheduler ==
    /\ versioned_keys' = Began
    /\ last' = Call("get_scheduler", "None", "Ok") @@
                   [returned |-> KeyRotationScheduler_clone(scheduler)]
    /\ UNCHANGED <<variant, scheduler, migration_batch_size, now, hist_uncompleted,
                   hist_pending, svars, vk, emergency, policy, xvars>>

\* Mutant: the clean-up removes the key behind the newest one instead of the
\* oldest one.
prune_second_removed(keys) ==
    IF Len(keys) > MaxRetainedKeys
    THEN <<keys[1]>> \o SubSeq(keys, 3, MaxRetainedKeys + 1)
    ELSE keys

RECURSIVE prune(_)
\* `while keys.len() > 3 { keys.pop() ... }`; the legacy source also logs each
\* removal on the newest key.
prune(keys) ==
    IF Len(keys) > MaxRetainedKeys
    THEN LET kept == SubSeq(keys, 1, Len(keys) - 1)
         IN  prune(IF variant = "legacy"
                   THEN [kept EXCEPT ![1].audit_log = @ + 1]
                   ELSE kept)
    ELSE keys

\* Mutant: the completed key keeps the progress it had.
keys_after_complete_progress_kept(keys) ==
    prune(<<set_status(keys[1], "Active")>> \o Tail(keys))

\* The list after complete_key_migration found the newest key Migrating.
keys_after_complete(keys) ==
    LET current_key == set_migration_progress(set_status(keys[1], "Active"), ProgressOne)
    IN  prune(<<current_key>> \o Tail(keys))

complete_result(p) ==
    IF p \notin DOMAIN versioned_keys THEN "PurposeNotFound"
    ELSE IF ~HasKey(p) THEN "NoKeysFound"
    ELSE IF Newest(p).status = "Migrating" THEN "Ok"
    ELSE "NoMigrationInProgress"

complete_key_migration(p) ==
    /\ IF complete_result(p) = "Ok"
       THEN versioned_keys' = SetKeys(p, keys_after_complete(Keys(p)))
       ELSE versioned_keys' = Began
    /\ hist_uncompleted' = [hist_uncompleted EXCEPT ![p] = FALSE]
    /\ hist_pending' = [hist_pending EXCEPT ![p] = FALSE]
    /\ last' = Call("complete_key_migration", p, complete_result(p))
    /\ UNCHANGED <<variant, scheduler, migration_batch_size, now, svars, vk, emergency, policy, xvars>>

\* manager.rs: update_migration_progress(purpose, progress: f32).
update_migration_progress(p, progress) ==
    /\ variant = "modular"
    /\ IF latest_is_migrating(p)
       THEN /\ versioned_keys' =
                   SetKeys(p, <<set_migration_progress(Newest(p), progress)>> \o Tail(Keys(p)))
            /\ last' = Call("update_migration_progress", p, "Ok")
       ELSE /\ versioned_keys' = Began
            /\ last' = Call("update_migration_progress", p, "NoMigrationInProgress")
    /\ UNCHANGED <<variant, scheduler, migration_batch_size, now, hist_uncompleted, hist_pending, svars, vk, emergency, policy, xvars>>

\* (processed_items as f32) / (total_items as f32), in halves; the inputs
\* are chosen so that the quotient is a whole number of halves.
progress_ratio(processed_items, total_items) == (processed_items * ProgressOne) \div total_items

legacy_update_result(p, total_items) ==
    IF total_items = 0 THEN "TotalItemsZero"
    ELSE IF p \notin DOMAIN versioned_keys THEN "PurposeNotFound"
    ELSE IF ~HasKey(p) THEN "NoKeysFound"
    ELSE IF Newest(p).status = "Migrating" THEN "Ok"
    ELSE "NotMigrating"

\* key_rotation.rs: update_migration_progress(purpose, processed_items,
\* total_items), which completes the migration itself at 100%.
legacy_update_migration_progress(p, processed_items, total_items) ==
    /\ variant = "legacy"
    /\ LET result == legacy_update_result(p, total_items)
           progress == progress_ratio(processed_items, total_items)
           updated == <<set_migration_progress(Newest(p), progress)>> \o Tail(Keys(p))
       IN  /\ IF result = "Ok"
              THEN IF progress >= ProgressOne
                   THEN /\ versioned_keys' = SetKeys(p, keys_after_complete(updated))
                        /\ hist_uncompleted' = [hist_uncompleted EXCEPT ![p] = FALSE]
                        /\ hist_pending' = [hist_pending EXCEPT ![p] = FALSE]
                   ELSE /\ versioned_keys' = SetKeys(p, updated)
                        /\ UNCHANGED <<hist_uncompleted, hist_pending>>
              ELSE versioned_keys' = Began /\ UNCHANGED <<hist_uncompleted, hist_pending>>
           /\ last' = Call("update_migration_progress", p, result)
    /\ UNCHANGED <<variant, scheduler, migration_batch_size, now, svars, vk, emergency, policy, xvars>>

start_progressive_migration(p, batch_size) ==
    /\ variant = "legacy"
    /\ migration_batch_size' = IF batch_size # None THEN batch_size[1] ELSE migration_batch_size
    /\ IF HasKey(p) /\ Newest(p).status = "Migrating"
       THEN /\ versioned_keys' =
                   SetKeys(p, <<[set_migration_progress(Newest(p), 0) EXCEPT !.audit_log = @ + 1]>>
                              \o Tail(Keys(p)))
            /\ last' = Call("start_progressive_migration", p, "Ok")
       ELSE /\ versioned_keys' = Began
            /\ last' = Call("start_progressive_migration", p,
                            IF p \notin DOMAIN versioned_keys THEN "PurposeNotFound"
                            ELSE IF ~HasKey(p) THEN "NoKeysFound" ELSE "NotMigrating")
    /\ UNCHANGED <<variant, scheduler, now, hist_uncompleted, hist_pending, svars, vk, emergency, policy, xvars>>

\* Mutant: the predecessor is left as it is.
reactivate_predecessor_skipped(keys, pred_version) == keys

\* The key rollback_migration reactivates: the one whose version equals the
\* newest key's predecessor_version.
reactivate_predecessor(keys, pred_version) ==
    IF pred_version # None /\ \E i \in 1..Len(keys) : keys[i].version = pred_version[1]
    THEN LET i == CHOOSE j \in 1..Len(keys) :
                      /\ keys[j].version = pred_version[1]
                      /\ \A k \in 1..(j - 1) : keys[k].version # pred_version[1]
         IN  [keys EXCEPT ![i] = set_status(keys[i], "Active")]
    ELSE keys

keys_after_rollback(keys) ==
    LET current_key == [set_status(set_migration_progress(keys[1], 0), "Deprecated")
                            EXCEPT !.audit_log = @ + 1]
    IN  reactivate_predecessor(<<current_key>> \o Tail(keys), keys[1].predecessor_version)

rollback_migration(p) ==
    /\ variant = "legacy"
    /\ IF p \notin DOMAIN versioned_keys
       THEN /\ versioned_keys' = Began /\ UNCHANGED hist_pending
            /\ last' = Call("rollback_migration", p, "PurposeNotFound")
       ELSE IF latest_is_migrating(p)
       THEN /\ versioned_keys' = SetKeys(p, keys_after_rollback(Keys(p)))
            /\ hist_pending' = [hist_pending EXCEPT ![p] = FALSE]
            /\ last' = Call("rollback_migration", p, "Ok")
       ELSE /\ versioned_keys' = Began /\ UNCHANGED hist_pending
            /\ last' = Call("rollback_migration", p, "NotMigrating")
    /\ UNCHANGED <<variant, scheduler, migration_batch_size, now, hist_uncompleted, svars, vk, emergency, policy, xvars>>

VersionInputs == {KeyVersion_built(1, m, 0, t) : m \in 0..MaxMinor, t \in 0..MaxBuiltAt}

revoke_key_version(p, version) ==
    /\ variant = "legacy"
    /\ IF p \notin DOMAIN versioned_keys
       THEN /\ versioned_keys' = Began /\ UNCHANGED hist_pending
            /\ last' = [Call("revoke_key_version", p, "PurposeNotFound") EXCEPT !.version = version]
       ELSE IF \E i \in 1..Len(Keys(p)) : Keys(p)[i].version = version
       THEN LET i == CHOOSE j \in 1..Len(Keys(p)) :
                         /\ Keys(p)[j].version = version
                         /\ \A k \in 1..(j - 1) : Keys(p)[k].version # version
            IN  /\ versioned_keys' = SetKeys(p, [Keys(p) EXCEPT ![i] = set_status(@, "Revoked")])
                /\ hist_pending' = [hist_pending EXCEPT ![p] = IF i = 1 THEN FALSE ELSE @]
                /\ last' = [Call("revoke_key_version", p, "Ok") EXCEPT !.version = version]
       ELSE /\ versioned_keys' = Began /\ UNCHANGED hist_pending
            /\ last' = [Call("revoke_key_version", p, "KeyVersionNotFound") EXCEPT !.version = version]
    /\ UNCHANGED <<variant, scheduler, migration_batch_size, now, hist_uncompleted, svars, vk, emergency, policy, xvars>>

\* key_rotation.rs: every key of a list longer than one that is expired and
\* not usable.  manager.rs: every key but the newest that is expired and not
\* Active.
cleanup_indices(keys) ==
    IF variant = "legacy"
    THEN {i \in 1..Len(keys) : Len(keys) > 1 /\ is_expired(keys[i].version) /\ ~is_usable(keys[i])}
    ELSE {i \in 1..Len(keys) : i > 1 /\ is_expired(keys[i].version) /\ keys[i].status # "Active"}

RECURSIVE SumRemoved(_)
SumRemoved(ps) ==
    IF ps = {} THEN 0
    ELSE LET p == CHOOSE x \in ps : TRUE
         IN  Cardinality(cleanup_indices(versioned_keys[p])) + SumRemoved(ps \ {p})

cleanup_expired_keys ==
    /\ versioned_keys' = [p \in DOMAIN versioned_keys |->
                              RemoveIndices(Began[p], cleanup_indices(Began[p]))]
    /\ last' = [Call("cleanup_expired_keys", "None", "Ok")
                   EXCEPT !.removed = SumRemoved(DOMAIN versioned_keys)]
    /\ UNCHANGED <<variant, scheduler, migration_batch_size, now, hist_uncompleted, hist_pending, svars, vk, emergency, policy, xvars>>

ProgressInputs == (0 - 1)..(ProgressOne + 1)
ProcessedInputs == 0..(ProgressOne + 1)
TotalInputs == {0, 1, ProgressOne}
BatchInputs == {None, Some(50)}

MNext ==
    \/ \E p \in Purposes : create_new_key_version(p)
    \/ \E p \in Purposes : complete_key_migration(p)
    \/ \E p \in Purposes, progress \in ProgressInputs : update_migration_progress(p, progress)
    \/ \E p \in Purposes, processed \in ProcessedInputs, total \in TotalInputs :
           legacy_update_migration_progress(p, processed, total)
    \/ \E p \in Purposes, b \in BatchInputs : start_progressive_migration(p, b)
    \/ \E p \in Purposes : rollback_migration(p)
    \/ \E p \in Purposes, v \in VersionInputs : revoke_key_version(p, v)
    \/ cleanup_expired_keys

\* The manager's calls that read or write its scheduler.
RNext ==
    \/ \E p \in Purposes : create_new_key_version(p)
    \/ \E p \in Purposes : complete_key_migration(p)
    \/ \E p \in Purposes : force_rotate_key(p)
    \/ \E p \in Purposes, pol \in PolicyInputs : set_rotation_policy(p, pol)
    \/ check_rotation_due
    \/ get_scheduler

\* ------------------------------------------------------ CrossDeviceRotationSync
Devices == {"phone", "watch"}
\* Byte strings are sequences; "" is <<>>.
Proofs == {<<>>, <<1>>, <<2>>}
Nonces == {<<7>>}
IntegrityHashes == {<<5>>}
DeviceLists == {<<>>, <<"phone">>, <<"phone", "watch">>}

\* generate_commitment_hash: SHA-256 over the bytes of proof followed by the
\* bytes of nonce.  The digest is taken to be collision-free, so it is
\* represented by the byte string it was computed from.
generate_commitment_hash(proof, nonce) == proof \o nonce

CommitmentHashes == {generate_commitment_hash(pr, n) : pr \in Proofs, n \in Nonces}

SCall(op, device, result) == [op |-> op, device |-> device, result |-> result, proof |-> <<>>]

\* CrossDeviceRotationSync::new
SyncInit ==
    /\ participating_devices = <<>>
    /\ coordination_state = "Initiating"
    /\ commitment_phase = <<>>
    /\ reveal_phase = <<>>
    /\ verification_phase = <<>>
    /\ protocol_state = "Initialized"
    /\ sync_state = "Synchronized"

initiate_cross_device_rotation(devices) ==
    /\ participating_devices' = devices
    /\ commitment_phase' = <<>>
    /\ reveal_phase' = <<>>
    /\ verification_phase' = <<>>
    /\ protocol_state' = "CommitmentPhase"
    /\ coordination_state' = "WaitingForDevices"
    /\ last' = SCall("initiate_cross_device_rotation", "None", "Ok")
    /\ UNCHANGED <<sync_state, kvars, vk, emergency, policy, xvars>>

Put(map, key, value) == [k \in (DOMAIN map) \cup {key} |-> IF k = key THEN value ELSE map[k]]

\* Mutant: every participating device is looked up in the map.
all_devices_committed_by_membership(commitments) ==
    \A i \in 1..Len(participating_devices) : participating_devices[i] \in DOMAIN commitments

all_devices_committed(commitments) ==
    Cardinality(DOMAIN commitments) >= Len(participating_devices)

all_devices_revealed(reveals) ==
    Cardinality(DOMAIN reveals) >= Len(participating_devices)

process_device_commitment(device_id, commitment_hash, nonce) ==
    /\ commitment_phase' = Put(commitment_phase, device_id,
                               [commitment_hash |-> commitment_hash, nonce |-> nonce])
    /\ IF all_devices_committed(commitment_phase')
       THEN /\ protocol_state' = "RevealPhase"
            /\ coordination_state' = "RotationInProgress"
       ELSE UNCHANGED <<protocol_state, coordination_state>>
    /\ last' = SCall("process_device_commitment", device_id, "Ok")
    /\ UNCHANGED <<participating_devices, reveal_phase, verification_phase, sync_state, kvars, vk, emergency, policy, xvars>>

\* Mutant: the reveal is accepted as soon as the device has a commitment.
verify_device_commitment_unchecked(device_id, rotation_proof) ==
    device_id \in DOMAIN commitment_phase

verify_device_commitment(device_id, rotation_proof) ==
    IF device_id \in DOMAIN commitment_phase
    THEN generate_commitment_hash(rotation_proof, commitment_phase[device_id].nonce)
             = commitment_phase[device_id].commitment_hash
    ELSE FALSE

process_device_reveal(device_id, rotation_proof, integrity_hash) ==
    /\ IF ~verify_device_commitment(device_id, rotation_proof)
       THEN /\ last' = [SCall("process_device_reveal", device_id, "InvalidCommitmentVerification")
                            EXCEPT !.proof = rotation_proof]
            /\ UNCHANGED <<reveal_phase, protocol_state, coordination_state>>
       ELSE /\ reveal_phase' = Put(reveal_phase, device_id,
                                   [rotation_proof |-> rotation_proof,
                                    integrity_hash |-> integrity_hash])
            /\ IF all_devices_revealed(reveal_phase')
               THEN /\ protocol_state' = "VerificationPhase"
                    /\ coordination_state' = "VerifyingCompletion"
               ELSE UNCHANGED <<protocol_state, coordination_state>>
            /\ last' = [SCall("process_device_reveal", device_id, "Ok")
                            EXCEPT !.proof = rotation_proof]
    /\ UNCHANGED <<participating_devices, commitment_phase, verification_phase, sync_state, kvars, vk, emergency, policy, xvars>>

verify_rotation_proof(device_id, rotation_proof) == Len(rotation_proof) > 0 /\ Len(device_id) > 0

generate_verification_hash(rotation_proof) == <<"sha256", rotation_proof, "coordinator">>

sign_verification(integrity_hash) == <<"sig_", integrity_hash>>

\* The loop walks the reveal_phase HashMap in an order the program does not
\* fix: `done` is the set of devices visited before the first one that fails,
\* or every device when none fails.
complete_verification_phase ==
    \E done \in SUBSET (DOMAIN reveal_phase) :
        LET failing == {d \in DOMAIN reveal_phase :
                            ~verify_rotation_proof(d, reveal_phase[d].rotation_proof)}
            proofs == [d \in done |->
                          [verification_hash |-> generate_verification_hash(reveal_phase[d].rotation_proof),
                           signature |-> sign_verification(reveal_phase[d].integrity_hash)]]
            merged == [d \in (DOMAIN verification_phase) \cup done |->
                          IF d \in done THEN proofs[d] ELSE verification_phase[d]]
        IN  /\ done \cap failing = {}
            /\ IF failing = {}
               THEN /\ done = DOMAIN reveal_phase
                    /\ verification_phase' = merged
                    /\ coordination_state' = "Completed"
                    /\ protocol_state' = "Completed"
                    /\ sync_state' = "Synchronized"
                    /\ last' = SCall("complete_verification_phase", "None", "true")
               ELSE /\ verification_phase' = merged
                    /\ coordination_state' = "Failed"
                    /\ UNCHANGED <<protocol_state, sync_state>>
                    /\ last' = SCall("complete_verification_phase", "None", "false")
    /\ UNCHANGED <<participating_devices, commitment_phase, reveal_phase, kvars, vk, emergency, policy, xvars>>

SNext ==
    \/ \E devices \in DeviceLists : initiate_cross_device_rotation(devices)
    \/ \E d \in Devices, h \in CommitmentHashes, n \in Nonces : process_device_commitment(d, h, n)
    \/ \E d \in Devices, pr \in Proofs, ih \in IntegrityHashes : process_device_reveal(d, pr, ih)
    \/ complete_verification_phase

\* ------------------------------------------------- VersionedKey, used directly
KeyVersionInputs ==
    {KeyVersion_built(1, 0, 0, 0), KeyVersion_built(1, 0, 0, MaxBuiltAt),
     KeyVersion_built(1, 1, 0, MaxBuiltAt), KeyVersion_built(2, 0, 0, MaxBuiltAt)}
KeyStatuses == {"Active", "Deprecated", "Revoked", "Migrating", "Expired"}

KCall(op, result) == [op |-> op, result |-> result]

VkBegan == [vk EXCEPT !.audit_log = 0]

vk_set_status(status) ==
    /\ vk' = set_status(VkBegan, status)
    /\ last' = KCall("set_status", "Ok")
    /\ UNCHANGED <<kvars, svars, emergency, policy, xvars>>

vk_set_migration_progress(progress) ==
    /\ vk' = set_migration_progress(VkBegan, progress)
    /\ last' = KCall("set_migration_progress", "Ok")
    /\ UNCHANGED <<kvars, svars, emergency, policy, xvars>>

vk_add_predecessor_version(predecessor) ==
    /\ vk' = add_predecessor_version(VkBegan, predecessor)
    /\ last' = KCall("add_predecessor_version", "Ok")
    /\ UNCHANGED <<kvars, svars, emergency, policy, xvars>>

\* Same major version and not newer than the key's own version.
validate_version_compatibility(k, version) ==
    version.major = k.version.major /\ compare_version(version, k.version) <= 0

add_supported_decryption_version(k, version) ==
    IF version \notin Range(k.supported_decryption_versions)
    THEN [k EXCEPT !.supported_decryption_versions = Append(@, version),
                   !.audit_log = @ + 1]
    ELSE k

vk_add_supported_decryption_version(version) ==
    /\ IF validate_version_compatibility(vk, version)
       THEN /\ vk' = add_supported_decryption_version(VkBegan, version)
            /\ last' = KCall("add_supported_decryption_version", "Ok")
       ELSE /\ vk' = VkBegan
            /\ last' = KCall("add_supported_decryption_version", "NotCompatible")
    /\ UNCHANGED <<kvars, svars, emergency, policy, xvars>>

transition_to_version(k, new_version) ==
    [add_predecessor_version(k, k.version)
        EXCEPT !.version = new_version,
               !.status = "Active",
               !.migration_progress = 0,
               !.audit_log = @ + 1]

vk_transition_to_version(new_version) ==
    /\ IF compare_version(new_version, vk.version) <= 0
       THEN /\ vk' = VkBegan
            /\ last' = KCall("transition_to_version", "NotNewer")
       ELSE /\ vk' = transition_to_version(VkBegan, new_version)
            /\ last' = KCall("transition_to_version", "Ok")
    /\ UNCHANGED <<kvars, svars, emergency, policy, xvars>>

VkNext ==
    \/ \E st \in KeyStatuses : vk_set_status(st)
    \/ \E progress \in ProgressInputs : vk_set_migration_progress(progress)
    \/ \E v \in KeyVersionInputs : vk_add_predecessor_version(v)
    \/ \E v \in KeyVersionInputs : vk_add_supported_decryption_version(v)
    \/ \E v \in KeyVersionInputs : vk_transition_to_version(v)

\* ----------------------------------------------------- EmergencyRotationManager
\* Incident ids are fresh UUIDs; the n-th incident created gets the id n.
MaxIncidents == 1
\* EmergencyRotationManager::new sets escalation_threshold to 7.
EscalationThreshold == 7
\* execute_immediate_actions isolates on any trigger type from this severity on.
IsolationSeverity == 8

UnknownIncident == 0
IncidentInputs == 0..MaxIncidents
TriggerTypeInputs == {"compromised_device", "key_exposure_risk", "system_intrusion",
                      "manual_trigger", "no_such_trigger"}
SeverityInputs == {5, EscalationThreshold, IsolationSeverity}
KeyIds == {"k1"}

\* EmergencyRotationManager::new
EmergencyInit ==
    emergency = [active_incidents |-> <<>>,
                 active_responses |-> <<>>,
                 recovery_plans |-> {},
                 isolated_devices |-> {},
                 invalidated_keys |-> {},
                 auto_response_enabled |-> TRUE]

ECall(op, incident_id, target, result) ==
    [op |-> op, incident |-> incident_id, target |-> target, result |-> result]

\* The strings are lower case already, so to_lowercase leaves them as they are.
parse_trigger_type(trigger_type) ==
    CASE trigger_type = "security_breach" -> Some("SecurityBreach")
      [] trigger_type = "compromised_device" -> Some("CompromisedDevice")
      [] trigger_type = "suspicious_activity" -> Some("SuspiciousActivity")
      [] trigger_type = "key_exposure_risk" -> Some("KeyExposureRisk")
      [] trigger_type = "system_intrusion" -> Some("SystemIntrusion")
      [] trigger_type = "malware_detection" -> Some("MalwareDetection")
      [] trigger_type = "unauthorized_access" -> Some("UnauthorizedAccess")
      [] trigger_type = "data_leakage" -> Some("DataLeakage")
      [] trigger_type = "physical_compromise" -> Some("PhysicalCompromise")
      [] trigger_type = "manual_trigger" -> Some("ManualTrigger")
      [] OTHER -> None

\* The Vec fields of a response are only pushed to and never indexed, so each
\* is kept as the set of its elements.
EmergencyResponse_new ==
    [status |-> "Responding",
     actions_taken |-> {},
     devices_isolated |-> {},
     keys_invalidated |-> {},
     recovery_status |-> "NotStarted"]

EmergencyAction(action_type, target, rollback_available) ==
    [action_type |-> action_type, target |-> target, rollback_available |-> rollback_available]

\* What isolate_device does to the manager before it logs the audit event.
isolate_device_effect(e, device_id, incident_id) ==
    [e EXCEPT !.isolated_devices = @ \cup {device_id},
              !.active_responses =
                  IF incident_id \in DOMAIN @
                  THEN [@ EXCEPT ![incident_id] =
                           [@ EXCEPT !.actions_taken = @ \cup {EmergencyAction("IsolateDevice", device_id, TRUE)},
                                     !.devices_isolated = @ \cup {device_id},
                                     !.status = "Isolating"]]
                  ELSE @]

RECURSIVE isolate_devices_effect(_, _, _)
\* isolate_device applied to the devices of a list, in order.
isolate_devices_effect(e, devices, incident_id) ==
    IF devices = <<>> THEN e
    ELSE isolate_devices_effect(isolate_device_effect(e, Head(devices), incident_id),
                                Tail(devices), incident_id)

\* log_event of the audit manager is not in the sources at hand: it returns
\* Ok or Err, and either can happen on any call.
LogResults == {"Ok", "Err"}

isolate_device(device_id, incident_id, logged) ==
    /\ emergency' = isolate_device_effect(emergency, device_id, incident_id)
    /\ last' = ECall("isolate_device", incident_id, device_id,
                     IF logged = "Ok" THEN "Ok" ELSE "FailedToLogDeviceIsolation")
    /\ UNCHANGED <<kvars, svars, vk, policy, xvars>>

\* Mutant: the invalidation is recorded as an action that can be rolled back.
invalidate_key_effect_reversible(e, key_id, incident_id) ==
    [e EXCEPT
        !.invalidated_keys = @ \cup {key_id},
        !.active_responses =
            IF incident_id \in DOMAIN @
            THEN [@ EXCEPT ![incident_id] =
                     [@ EXCEPT !.actions_taken = @ \cup {EmergencyAction("InvalidateKey", key_id, TRUE)},
                               !.keys_invalidated = @ \cup {key_id}]]
            ELSE @]

\* What invalidate_key does to the manager before it logs the audit event.
invalidate_key_effect(e, key_id, incident_id) ==
    [e EXCEPT
        !.invalidated_keys = @ \cup {key_id},
        !.active_responses =
            IF incident_id \in DOMAIN @
            THEN [@ EXCEPT ![incident_id] =
                     [@ EXCEPT !.actions_taken = @ \cup {EmergencyAction("InvalidateKey", key_id, FALSE)},
                               !.keys_invalidated = @ \cup {key_id}]]
            ELSE @]

is_key_invalidated(e, key_id) == key_id \in e.invalidated_keys

invalidate_key(key_id, incident_id, logged) ==
    /\ emergency' = invalidate_key_effect(emergency, key_id, incident_id)
    /\ last' = ECall("invalidate_key", incident_id, key_id,
                     IF logged = "Ok" THEN "Ok" ELSE "FailedToLogKeyInvalidation")
    /\ UNCHANGED <<kvars, svars, vk, policy, xvars>>

\* The devices execute_immediate_actions isolates for an incident.
immediate_isolation_targets(incident) ==
    IF incident.trigger_type \in {"CompromisedDevice", "SystemIntrusion"}
    THEN incident.affected_devices
    ELSE IF incident.trigger_type = "KeyExposureRisk" THEN <<>>
    ELSE IF incident.severity >= IsolationSeverity THEN incident.affected_devices
    ELSE <<>>

\* initiate_emergency_response up to the point where `logged_count` of the
\* isolations were logged; the isolation whose log fails still took effect,
\* and the `?` leaves before the recovery plan is generated.
response_started(e, incident_id, logged_count) ==
    LET incident == e.active_incidents[incident_id]
        targets == immediate_isolation_targets(incident)
        opened == [e EXCEPT !.active_responses = Put(@, incident_id, EmergencyResponse_new),
                            !.active_incidents[incident_id].status = "Responding"]
    IN  IF logged_count >= Len(targets)
        THEN [isolate_devices_effect(opened, targets, incident_id)
                 EXCEPT !.recovery_plans = @ \cup {incident_id}]
        ELSE isolate_devices_effect(opened, SubSeq(targets, 1, logged_count + 1), incident_id)

response_result(e, incident_id, logged_count) ==
    IF logged_count >= Len(immediate_isolation_targets(e.active_incidents[incident_id]))
    THEN "Ok" ELSE "FailedToLogDeviceIsolation"

initiate_emergency_response(incident_id, logged_count) ==
    /\ IF incident_id \notin DOMAIN emergency.active_incidents
       THEN /\ logged_count = 0
            /\ UNCHANGED emergency
            /\ last' = ECall("initiate_emergency_response", incident_id, "None", "IncidentNotFound")
       ELSE /\ logged_count <= Len(immediate_isolation_targets(emergency.active_incidents[incident_id]))
            /\ emergency' = response_started(emergency, incident_id, logged_count)
            /\ last' = ECall("initiate_emergency_response", incident_id, "None",
                             response_result(emergency, incident_id, logged_count))
    /\ UNCHANGED <<kvars, svars, vk, policy, xvars>>

trigger_emergency_rotation(trigger_type, affected_devices, severity, logged_count) ==
    /\ IF parse_trigger_type(trigger_type) = None
       THEN /\ logged_count = 0
            /\ UNCHANGED emergency
            /\ last' = ECall("trigger_emergency_rotation", UnknownIncident, "None", "UnknownTriggerType")
       ELSE LET incident_id == Cardinality(DOMAIN emergency.active_incidents) + 1
                incident == [trigger_type |-> parse_trigger_type(trigger_type)[1],
                             severity |-> severity,
                             status |-> "Detected",
                             affected_devices |-> affected_devices]
                inserted == [emergency EXCEPT !.active_incidents = Put(@, incident_id, incident)]
            IN  /\ incident_id <= MaxIncidents
                /\ IF emergency.auto_response_enabled /\ severity >= EscalationThreshold
                   THEN /\ logged_count <= Len(immediate_isolation_targets(incident))
                        /\ emergency' = response_started(inserted, incident_id, logged_count)
                        /\ last' = ECall("trigger_emergency_rotation", incident_id, "None",
                                         IF response_result(inserted, incident_id, logged_count) = "Ok"
                                         THEN "Ok" ELSE "FailedToInitiateAutoResponse")
                   ELSE /\ logged_count = 0
                        /\ emergency' = inserted
                        /\ last' = ECall("trigger_emergency_rotation", incident_id, "None", "Ok")
    /\ UNCHANGED <<kvars, svars, vk, policy, xvars>>

\* rotate_device_keys_emergency always succeeds and keeps no state.
execute_emergency_rotation(incident_id, device_ids, logged) ==
    /\ emergency' = [emergency EXCEPT !.active_responses =
                        IF incident_id \in DOMAIN @
                        THEN [@ EXCEPT ![incident_id].status = "Rotating"]
                        ELSE @]
    /\ last' = ECall("execute_emergency_rotation", incident_id, "None",
                     IF logged = "Ok" THEN "Ok" ELSE "FailedToLogEmergencyRotation")
    /\ UNCHANGED <<kvars, svars, vk, policy, xvars>>

\* Every execute_recovery_step returns Ok, so the loop over the plan's steps
\* always runs to its end.
initiate_recovery(incident_id, logged) ==
    /\ IF incident_id \notin emergency.recovery_plans
       THEN /\ logged = "Ok"
            /\ UNCHANGED emergency
            /\ last' = ECall("initiate_recovery", incident_id, "None", "RecoveryPlanNotFound")
       ELSE /\ emergency' = [emergency EXCEPT !.active_responses =
                               IF incident_id \in DOMAIN @
                               THEN [@ EXCEPT ![incident_id].status = "Complete",
                                              ![incident_id].recovery_status = "Complete"]
                               ELSE @]
            /\ last' = ECall("initiate_recovery", incident_id, "None",
                             IF logged = "Ok" THEN "Ok" ELSE "FailedToLogRecoveryCompletion")
    /\ UNCHANGED <<kvars, svars, vk, policy, xvars>>

\* Mutant: the response's status is not looked at.
restore_guard_status_unchecked(incident_id) ==
    IF incident_id \notin DOMAIN emergency.active_incidents THEN "IncidentNotFound"
    ELSE IF incident_id \notin DOMAIN emergency.active_responses THEN "ResponseNotFound"
    ELSE "Ok"

\* The checks restore_device_access makes before it touches isolated_devices.
restore_guard(incident_id) ==
    IF incident_id \notin DOMAIN emergency.active_incidents THEN "IncidentNotFound"
    ELSE IF incident_id \notin DOMAIN emergency.active_responses THEN "ResponseNotFound"
    ELSE IF emergency.active_responses[incident_id].status # "Complete" THEN "NotFullyResolved"
    ELSE "Ok"

restore_device_access(device_id, incident_id, logged) ==
    /\ IF restore_guard(incident_id) # "Ok"
       THEN /\ logged = "Ok"
            /\ UNCHANGED emergency
            /\ last' = ECall("restore_device_access", incident_id, device_id, restore_guard(incident_id))
       ELSE IF device_id \notin emergency.isolated_devices
       THEN /\ logged = "Ok"
            /\ UNCHANGED emergency
            /\ last' = ECall("restore_device_access", incident_id, device_id, "DeviceWasNotIsolated")
       ELSE /\ emergency' = [emergency EXCEPT !.isolated_devices = @ \ {device_id}]
            /\ last' = ECall("restore_device_access", incident_id, device_id,
                             IF logged = "Ok" THEN "Ok" ELSE "FailedToLogAccessRestoration")
    /\ UNCHANGED <<kvars, svars, vk, policy, xvars>>

ENext ==
    \/ \E t \in TriggerTypeInputs, devices \in DeviceLists, sev \in SeverityInputs, n \in 0..2 :
           trigger_emergency_rotation(t, devices, sev, n)
    \/ \E i \in IncidentInputs, n \in 0..2 : initiate_emergency_response(i, n)
    \/ \E d \in Devices, i \in IncidentInputs, logged \in LogResults : isolate_device(d, i, logged)
    \/ \E k \in KeyIds, i \in IncidentInputs, logged \in LogResults : invalidate_key(k, i, logged)
    \/ \E i \in IncidentInputs, devices \in DeviceLists, logged \in LogResults :
           execute_emergency_rotation(i, devices, logged)
    \/ \E i \in IncidentInputs, logged \in LogResults : initiate_recovery(i, logged)
    \/ \E d \in Devices, i \in IncidentInputs, logged \in LogResults : restore_device_access(d, i, logged)

\* ---------------------------------------------- MultiDeviceProtocol (multi_device.rs)
MaxMaxDevices == 2
MaxPairingAgeMs == 300000
\* js_sys::Date::now() in milliseconds, held at one instant.
DateNow == 300001

DeviceIds == {"device1", "device2", "device3"}
DeviceNames == {"Device 1", "Device 2"}
\* A request older than max_age, one exactly max_age old, one made now and
\* one stamped after the registry's clock.
RequestTimestamps == {0, 1, DateNow, DateNow + 1}

\* Trust scores and the trust threshold are f64 values in [0.0, 1.0]; the code
\* only ever stores 0.0, 0.5 and 1.0, which are kept by name.
TrustTenths(score) ==
    CASE score = "0.0" -> 0
      [] score = "0.5" -> 5
      [] score = "0.7" -> 7
      [] score = "1.0" -> 10

TrustThresholds == {"0.5", "0.7", "1.0"}

MultiDeviceProtocol_new(trust_threshold, max_devices) ==
    [device_registry |-> <<>>, trust_threshold |-> trust_threshold, max_devices |-> max_devices]

\* format!("trust_{}_{}", device_id, now)
trust_token(device_id, created_at) == <<"trust", device_id, created_at>>

\* DeviceRegistryEntry::is_expired with the 24 hour TTL, in milliseconds.
TtlMs == 86400000
entry_is_expired(entry) == DateNow - entry.last_sync > TtlMs

validate_device_auth(md, device_id, auth_token) ==
    IF device_id \in DOMAIN md.device_registry
    THEN LET entry == md.device_registry[device_id]
         IN  /\ entry.status = "Trusted"
             /\ TrustTenths(entry.trust_score) >= TrustTenths(md.trust_threshold)
             /\ trust_token(device_id, entry.created_at) = auth_token
             /\ ~entry_is_expired(entry)
    ELSE FALSE

DeviceRegistryEntry_new(device_name, status, trust_score) ==
    [device_name |-> device_name, status |-> status, trust_score |-> trust_score,
     last_sync |-> DateNow, created_at |-> DateNow, updated_at |-> DateNow]

device_count(md) == Cardinality(DOMAIN md.device_registry)

\* Mutant: the capacity check lets one device too many in.
is_device_limit_reached_off_by_one(md) == device_count(md) > md.max_devices

is_device_limit_reached(md) == device_count(md) >= md.max_devices

\* `now - request.timestamp()` on u64: a timestamp after `now` overflows, which
\* panics in a build with overflow checks and wraps to a value far above
\* max_age in one without.
pairing_age_outcomes(timestamp) ==
    IF timestamp > DateNow THEN {"panic", "expired"}
    ELSE IF DateNow - timestamp > MaxPairingAgeMs THEN {"expired"}
    ELSE {"fresh"}

set_status_and_trust(md, device_id, status, trust_score) ==
    [md EXCEPT !.device_registry[device_id].status = status,
               !.device_registry[device_id].trust_score = trust_score,
               !.device_registry[device_id].updated_at = DateNow]

DCall(op, device_id, result) ==
    [op |-> op, device |-> device_id, result |-> result, timestamp |-> DateNow]

process_pairing_request(device_id, device_name, timestamp) ==
    /\ \E age \in pairing_age_outcomes(timestamp) :
        IF age = "panic"
        THEN /\ last' = [DCall("process_pairing_request", device_id, "panic") EXCEPT !.timestamp = timestamp]
             /\ UNCHANGED multi_device
        ELSE IF age = "expired"
        THEN /\ last' = [DCall("process_pairing_request", device_id, "Pairing request expired") EXCEPT !.timestamp = timestamp]
             /\ UNCHANGED multi_device
        ELSE IF is_device_limit_reached(multi_device)
        THEN /\ last' = [DCall("process_pairing_request", device_id, "Maximum device limit reached") EXCEPT !.timestamp = timestamp]
             /\ UNCHANGED multi_device
        ELSE /\ multi_device' = [multi_device EXCEPT !.device_registry =
                    Insert(@, device_id, DeviceRegistryEntry_new(device_name, "Pending", "0.5"))]
             /\ last' = [DCall("process_pairing_request", device_id, "Ok") EXCEPT !.timestamp = timestamp]
    /\ UNCHANGED <<kvars, svars, vk, emergency, policy, recovery, migration>>

finalize_pairing(device_id, validated) ==
    /\ IF device_id \notin DOMAIN multi_device.device_registry
       THEN /\ last' = DCall("finalize_pairing", device_id, "Device not found in registry")
            /\ UNCHANGED multi_device
       ELSE /\ multi_device' = IF validated
                               THEN set_status_and_trust(multi_device, device_id, "Trusted", "1.0")
                               ELSE set_status_and_trust(multi_device, device_id, "Revoked", "0.0")
            /\ last' = DCall("finalize_pairing", device_id, "Ok")
    /\ UNCHANGED <<kvars, svars, vk, emergency, policy, recovery, migration>>

revoke_device(device_id) ==
    /\ IF device_id \notin DOMAIN multi_device.device_registry
       THEN /\ last' = DCall("revoke_device", device_id, "Device not found in registry")
            /\ UNCHANGED multi_device
       ELSE /\ multi_device' = set_status_and_trust(multi_device, device_id, "Revoked", "0.0")
            /\ last' = DCall("revoke_device", device_id, "Ok")
    /\ UNCHANGED <<kvars, svars, vk, emergency, policy, recovery, migration>>

reenroll_device(device_id) ==
    /\ IF device_id \notin DOMAIN multi_device.device_registry
       THEN /\ last' = DCall("reenroll_device", device_id, "Device not found in registry")
            /\ UNCHANGED multi_device
       ELSE IF multi_device.device_registry[device_id].status = "Revoked"
       THEN /\ multi_device' = set_status_and_trust(multi_device, device_id, "Pending", "0.5")
            /\ last' = DCall("reenroll_device", device_id, "Ok")
       ELSE /\ last' = DCall("reenroll_device", device_id, "Device is not in revoked state")
            /\ UNCHANGED multi_device
    /\ UNCHANGED <<kvars, svars, vk, emergency, policy, recovery, migration>>

DNext ==
    \/ \E d \in DeviceIds, n \in DeviceNames, t \in RequestTimestamps : process_pairing_request(d, n, t)
    \/ \E d \in DeviceIds, validated \in BOOLEAN : finalize_pairing(d, validated)
    \/ \E d \in DeviceIds : revoke_device(d)
    \/ \E d \in DeviceIds : reenroll_device(d)

\* --------------------------------------------------- RecoverySystem (recovery.rs)
MaxMaxAttempts == 2

\* backup_{device_id}_{Date::now()}: the identifier is fixed by the instant of
\* the create_backup call.
BackupIds == {"backup_dev_1", "backup_dev_2"}
ValidationLevels == {0, 1}
ValidWordCounts == {12, 15, 18, 21, 24}

\* RecoveryPhrase, by its phrase_string() and word_count; the other fields are
\* non-empty in every phrase used here.
RecoveryPhrases ==
    {[phrase_string |-> "abandon1 ability2", word_count |-> 12],
     [phrase_string |-> "word1 word2", word_count |-> 15],
     [phrase_string |-> "absent1 absorb2", word_count |-> 12],
     [phrase_string |-> "abandon1 ability2", word_count |-> 11]}

RecoveryPhrase_validate(phrase) ==
    phrase.phrase_string # "" /\ phrase.word_count \in ValidWordCounts

\* The 32 bytes of simple_hash are all computed from one 32-bit state, so
\* different phrases can have the same hash: here the third phrase collides with
\* the first.
simple_hash(phrase_string) ==
    CASE phrase_string = "abandon1 ability2" -> "state_a"
      [] phrase_string = "absent1 absorb2" -> "state_a"
      [] OTHER -> "state_w"

PasskeyChallenges == {<<>>, <<1, 2>>}
PasskeyResponses == {<<>>, <<3>>, <<4>>}

RECURSIVE ByteSum(_)
ByteSum(bytes) == IF bytes = <<>> THEN 0 ELSE Head(bytes) + ByteSum(Tail(bytes))

validate_passkey_response(challenge, response) ==
    IF challenge = <<>> \/ response = <<>> THEN FALSE
    ELSE ByteSum(response) > ByteSum(challenge)

RecoverySystem_new(validation_level, max_attempts) ==
    [key_backups |-> <<>>, recovery_attempts |-> <<>>,
     validation_level |-> validation_level, max_attempts |-> max_attempts]

get_attempt_count(r, backup_id) ==
    IF backup_id \in DOMAIN r.recovery_attempts THEN r.recovery_attempts[backup_id] ELSE 0

is_backup_locked(r, backup_id) == get_attempt_count(r, backup_id) >= r.max_attempts

MapRemove(map, key) == [k \in (DOMAIN map) \ {key} |-> map[k]]

\* Mutant: a failed attempt is counted twice.
increment_attempt_count_twice(r, backup_id) ==
    [r EXCEPT !.recovery_attempts = Insert(@, backup_id, get_attempt_count(r, backup_id) + 2)]

increment_attempt_count(r, backup_id) ==
    [r EXCEPT !.recovery_attempts = Insert(@, backup_id, get_attempt_count(r, backup_id) + 1)]

RCall(op, backup_id, result) ==
    [op |-> op, backup |-> backup_id, result |-> result, phrase |-> None]

InitiateCall(backup_id, phrase, result) ==
    [RCall("initiate_recovery", backup_id, result) EXCEPT !.phrase = Some(phrase)]

create_backup(backup_id, phrase, passkey_challenge) ==
    /\ IF ~RecoveryPhrase_validate(phrase)
       THEN /\ last' = RCall("create_backup", backup_id, "Invalid recovery phrase")
            /\ UNCHANGED recovery
       ELSE /\ recovery' = [recovery EXCEPT !.key_backups = Insert(@, backup_id,
                              [recovery_phrase_hash |-> simple_hash(phrase.phrase_string),
                               passkey_challenge |-> passkey_challenge])]
            /\ last' = RCall("create_backup", backup_id, "Ok")
    /\ UNCHANGED <<kvars, svars, vk, emergency, policy, multi_device, migration>>

RecoverySystem_initiate_recovery(backup_id, phrase, passkey_response) ==
    /\ IF get_attempt_count(recovery, backup_id) >= recovery.max_attempts
       THEN /\ last' = InitiateCall(backup_id, phrase, "Recovery attempts exceeded - account locked")
            /\ UNCHANGED recovery
       ELSE IF backup_id \notin DOMAIN recovery.key_backups
       THEN /\ last' = InitiateCall(backup_id, phrase, "Backup not found")
            /\ UNCHANGED recovery
       ELSE IF ~RecoveryPhrase_validate(phrase)
       THEN /\ recovery' = increment_attempt_count(recovery, backup_id)
            /\ last' = InitiateCall(backup_id, phrase, "Invalid recovery phrase")
       ELSE IF simple_hash(phrase.phrase_string) # recovery.key_backups[backup_id].recovery_phrase_hash
       THEN /\ recovery' = increment_attempt_count(recovery, backup_id)
            /\ last' = InitiateCall(backup_id, phrase, "Recovery phrase does not match backup")
       ELSE IF /\ recovery.validation_level >= 1
               /\ ~validate_passkey_response(recovery.key_backups[backup_id].passkey_challenge,
                                             passkey_response)
       THEN /\ recovery' = increment_attempt_count(recovery, backup_id)
            /\ last' = InitiateCall(backup_id, phrase, "Passkey authentication failed")
       ELSE /\ recovery' = [recovery EXCEPT !.recovery_attempts = MapRemove(@, backup_id)]
            /\ last' = InitiateCall(backup_id, phrase, "Ok")
    /\ UNCHANGED <<kvars, svars, vk, emergency, policy, multi_device, migration>>

remove_backup(backup_id) ==
    /\ IF backup_id \in DOMAIN recovery.key_backups
       THEN /\ recovery' = [recovery EXCEPT !.key_backups = MapRemove(@, backup_id)]
            /\ last' = RCall("remove_backup", backup_id, "Ok")
       ELSE /\ last' = RCall("remove_backup", backup_id, "Backup not found")
            /\ UNCHANGED recovery
    /\ UNCHANGED <<kvars, svars, vk, emergency, policy, multi_device, migration>>

reset_attempt_count(backup_id) ==
    /\ recovery' = [recovery EXCEPT !.recovery_attempts = MapRemove(@, backup_id)]
    /\ last' = RCall("reset_attempt_count", backup_id, "Ok")
    /\ UNCHANGED <<kvars, svars, vk, emergency, policy, multi_device, migration>>

RecNext ==
    \/ \E b \in BackupIds, phrase \in RecoveryPhrases, c \in PasskeyChallenges : create_backup(b, phrase, c)
    \/ \E b \in BackupIds, phrase \in RecoveryPhrases, r \in PasskeyResponses :
           RecoverySystem_initiate_recovery(b, phrase, r)
    \/ \E b \in BackupIds : remove_backup(b)
    \/ \E b \in BackupIds : reset_attempt_count(b)

\* ------------------------- ProgressiveMigrationManager (key_rotation/migration.rs)
MaxBatchCalls == 2
TwoPow16 == 65536

\* A u32 counter whose sums can pass u32::MAX is kept as its two 16-bit halves,
\* <<high, low>>, so that the carry out of 32 bits is visible.
U32(n) == <<n \div TwoPow16, n % TwoPow16>>
U32Half == <<TwoPow16 \div 2, 0>>

add_overflows(a, b) == a[1] + b[1] + ((a[2] + b[2]) \div TwoPow16) >= TwoPow16

wrapping_add(a, b) ==
    <<(a[1] + b[1] + ((a[2] + b[2]) \div TwoPow16)) % TwoPow16, (a[2] + b[2]) % TwoPow16>>

\* a + b as a number of up to 33 bits: <<carry, high, low>>.
exact_add(a, b) == <<IF add_overflows(a, b) THEN 1 ELSE 0>> \o wrapping_add(a, b)

MigrationIds == {"m1", "m2"}
BatchSizes == {0, 1, 2}
TotalRecordsInputs == {0, 1, 3}
CountInputs == {U32(0), U32(1), U32Half}

\* overflow_checks is the build's setting: `+=` on a u32 panics on overflow
\* with it and wraps without.
ProgressiveMigrationManager_new(batch_size, overflow_checks) ==
    [batch_size |-> batch_size, migration_state |-> <<>>, overflow_checks |-> overflow_checks]

MigrationCheckpoint(total_batches) ==
    [current_batch |-> 0, total_batches |-> total_batches,
     processed_count |-> U32(0), failed_count |-> U32(0)]

BCall(op, migration_id, result) ==
    [op |-> op, migration |-> migration_id, result |-> result, is_complete |-> FALSE,
     processed_count |-> U32(0), failed_count |-> U32(0)]

\* With batch_size = 0 the division panics in every build.
start_migration(migration_id, total_records) ==
    /\ IF migration.batch_size = 0
       THEN /\ last' = BCall("start_migration", migration_id, "panic")
            /\ UNCHANGED migration
       ELSE /\ migration' = [migration EXCEPT !.migration_state = Insert(@, migration_id,
                MigrationCheckpoint((total_records + migration.batch_size - 1) \div migration.batch_size))]
            /\ last' = BCall("start_migration", migration_id, "started")
    /\ UNCHANGED <<kvars, svars, vk, emergency, policy, multi_device, recovery>>

\* Mutant: a complete migration is not advanced any further.
next_batch_guarded(checkpoint) ==
    IF checkpoint.current_batch >= checkpoint.total_batches
    THEN checkpoint.current_batch
    ELSE checkpoint.current_batch + 1

\* `checkpoint.current_batch += 1`, whatever the checkpoint holds.
next_batch(checkpoint) == checkpoint.current_batch + 1

process_next_batch(migration_id, processed_count, failed_count) ==
    /\ IF migration_id \in DOMAIN migration.migration_state
       THEN LET checkpoint == migration.migration_state[migration_id]
                batched == [checkpoint EXCEPT !.current_batch = next_batch(checkpoint)]
                processed == [batched EXCEPT !.processed_count = wrapping_add(@, processed_count)]
                failed == [processed EXCEPT !.failed_count = wrapping_add(@, failed_count)]
                Called(result) == [BCall("process_next_batch", migration_id, result) EXCEPT
                                     !.processed_count = processed_count,
                                     !.failed_count = failed_count]
            IN  /\ checkpoint.current_batch < MaxBatchCalls
                /\ IF migration.overflow_checks /\ add_overflows(checkpoint.processed_count, processed_count)
                   THEN /\ migration' = [migration EXCEPT !.migration_state[migration_id] = batched]
                        /\ last' = Called("panic")
                   ELSE IF migration.overflow_checks /\ add_overflows(checkpoint.failed_count, failed_count)
                   THEN /\ migration' = [migration EXCEPT !.migration_state[migration_id] = processed]
                        /\ last' = Called("panic")
                   ELSE /\ migration' = [migration EXCEPT !.migration_state[migration_id] = failed]
                        /\ last' = [Called("success") EXCEPT
                                      !.is_complete = failed.current_batch >= failed.total_batches]
       ELSE /\ last' = BCall("process_next_batch", migration_id, "Migration not found")
            /\ UNCHANGED migration
    /\ UNCHANGED <<kvars, svars, vk, emergency, policy, multi_device, recovery>>

clear_migration(migration_id) ==
    /\ migration' = [migration EXCEPT !.migration_state = MapRemove(@, migration_id)]
    /\ last' = BCall("clear_migration", migration_id,
                     IF migration_id \in DOMAIN migration.migration_state THEN "true" ELSE "false")
    /\ UNCHANGED <<kvars, svars, vk, emergency, policy, multi_device, recovery>>

BNext ==
    \/ \E m \in MigrationIds, total \in TotalRecordsInputs : start_migration(m, total)
    \/ \E m \in MigrationIds, processed \in CountInputs, failed \in CountInputs :
           process_next_batch(m, processed, failed)
    \/ \E m \in MigrationIds : clear_migration(m)

\* The components no call of the other specifications touches.
OthersInit ==
    /\ multi_device = MultiDeviceProtocol_new("0.7", MaxMaxDevices)
    /\ recovery = RecoverySystem_new(1, MaxMaxAttempts)
    /\ migration = ProgressiveMigrationManager_new(1, TRUE)

\* ------------------------------------------------------------- specifications
MInit ==
    /\ KeysInit
    /\ SyncInit
    /\ vk = VersionedKey_new(KeyVersion_new(1, 0, 0))
    /\ EmergencyInit
    /\ OthersInit
    /\ NoPolicy
    /\ last = Call("new", "None", "Ok")

\* The key rotation manager.
Spec == MInit /\ [][MNext]_mvars

SyncSpecInit ==
    /\ KeysInit /\ variant = "modular"
    /\ SyncInit
    /\ vk = VersionedKey_new(KeyVersion_new(1, 0, 0))
    /\ EmergencyInit
    /\ OthersInit
    /\ NoPolicy
    /\ last = SCall("new", "None", "Ok")

\* The cross-device rotation protocol.
SyncSpec == SyncSpecInit /\ [][SNext]_mvars

VkSpecInit ==
    /\ KeysInit /\ variant = "modular"
    /\ SyncInit
    /\ vk \in {VersionedKey_new(v) : v \in KeyVersionInputs}
    /\ EmergencyInit
    /\ OthersInit
    /\ NoPolicy
    /\ last = KCall("new", "Ok")

\* One VersionedKey driven through its own methods.
VkSpec == VkSpecInit /\ [][VkNext]_mvars

EmergencySpecInit ==
    /\ KeysInit /\ variant = "modular"
    /\ SyncInit
    /\ vk = VersionedKey_new(KeyVersion_new(1, 0, 0))
    /\ EmergencyInit
    /\ OthersInit
    /\ NoPolicy
    /\ last = ECall("new", UnknownIncident, "None", "Ok")

\* The emergency rotation manager.
EmergencySpec == EmergencySpecInit /\ [][ENext]_mvars

\* The key rotation manager with its scheduler.
ScheduleSpec == MInit /\ [][RNext]_mvars

PolicySpecInit ==
    /\ KeysInit /\ variant = "modular"
    /\ SyncInit
    /\ vk = VersionedKey_new(KeyVersion_new(1, 0, 0))
    /\ EmergencyInit
    /\ OthersInit
    /\ policy \in {RotationPolicy_new(d) : d \in MaxAgeDaysInputs}
    /\ last = PCall("new", "Ok")

\* One RotationPolicy driven through its own methods.
PolicySpec == PolicySpecInit /\ [][PNext]_mvars

MultiDeviceSpecInit ==
    /\ KeysInit /\ variant = "modular"
    /\ SyncInit
    /\ vk = VersionedKey_new(KeyVersion_new(1, 0, 0))
    /\ EmergencyInit
    /\ NoPolicy
    /\ multi_device \in {MultiDeviceProtocol_new(t, n) : t \in TrustThresholds, n \in 0..MaxMaxDevices}
    /\ recovery = RecoverySystem_new(1, MaxMaxAttempts)
    /\ migration = ProgressiveMigrationManager_new(1, TRUE)
    /\ last = DCall("new", "None", "Ok")

\* The device registry of the multi-device protocol.
MultiDeviceSpec == MultiDeviceSpecInit /\ [][DNext]_mvars


RecoverySpecInit ==
    /\ KeysInit /\ variant = "modular"
    /\ SyncInit
    /\ vk = VersionedKey_new(KeyVersion_new(1, 0, 0))
    /\ EmergencyInit
    /\ NoPolicy
    /\ multi_device = MultiDeviceProtocol_new("0.7", MaxMaxDevices)
    /\ recovery \in {RecoverySystem_new(l, n) : l \in ValidationLevels, n \in 0..MaxMaxAttempts}
    /\ migration = ProgressiveMigrationManager_new(1, TRUE)
    /\ last = RCall("new", "None", "Ok")

\* The recovery system and its attempt limiting.
RecoverySpec == RecoverySpecInit /\ [][RecNext]_mvars

MigrationSpecInit ==
    /\ KeysInit /\ variant = "modular"
    /\ SyncInit
    /\ vk = VersionedKey_new(KeyVersion_new(1, 0, 0))
    /\ EmergencyInit
    /\ NoPolicy
    /\ multi_device = MultiDeviceProtocol_new("0.7", MaxMaxDevices)
    /\ recovery = RecoverySystem_new(1, MaxMaxAttempts)
    /\ migration \in {ProgressiveMigrationManager_new(b, c) : b \in BatchSizes, c \in BOOLEAN}
    /\ last = BCall("new", "None", "Ok")

\* The progressive migration manager and its checkpoints.
MigrationSpec == MigrationSpecInit /\ [][BNext]_mvars

UsageSpecInit ==
    /\ KeysInit /\ variant = "modular"
    /\ SyncInit
    /\ vk = VersionedKey_new(KeyVersion_new(1, 0, 0))
    /\ EmergencyInit
    /\ OthersInit
    /\ NoPolicy
    /\ last = UCall("new", "None")

\* A KeyRotationScheduler and its usage tracking.
UsageSpec == UsageSpecInit /\ [][UNext]_mvars

\* ================================================================= properties
Versions(keys) == [i \in 1..Len(keys) |-> to_string(keys[i].version)]

\* The key of `keys` that carries `version` (the first one, as Iterator::find).
HasVersion(keys, version) == \E i \in 1..Len(keys) : keys[i].version = version

KeyOf(keys, version) ==
    keys[CHOOSE i \in 1..Len(keys) :
            /\ keys[i].version = version
            /\ \A j \in 1..(i - 1) : keys[j].version # version]

KeysNow(p) == IF p \in DOMAIN versioned_keys THEN versioned_keys[p] ELSE <<>>
KeysNext(p) == IF p \in DOMAIN versioned_keys' THEN versioned_keys'[p] ELSE <<>>

MigratingCount(keys) == Cardinality({i \in 1..Len(keys) : keys[i].status = "Migrating"})

\* C1: after any sequence of manager calls, every purpose's key list holds at
\* most one VersionedKey whose status is Migrating.
C1_AtMostOneMigrating == \A p \in Purposes : MigratingCount(KeysNow(p)) <= 1

\* A rotation created after a rollback: one Migrating key above a rolled-back
\* (Deprecated) key and the reactivated (Active) predecessor.
C1_Witness ==
    \E p \in Purposes :
        /\ Len(KeysNow(p)) >= 3
        /\ KeysNow(p)[1].status = "Migrating"
        /\ KeysNow(p)[2].status = "Deprecated"
        /\ KeysNow(p)[3].status = "Active"
        /\ last.op = "create_new_key_version" /\ last.result = "Ok"

manager_can_decrypt(k, data_version) ==
    IF variant = "legacy" THEN legacy_can_decrypt_data_from_version(k, data_version)
    ELSE can_decrypt_data_from_version(k, data_version)

C5_CompleteKeyMigration ==
    [][last'.op = "complete_key_migration" =>
          LET p == last'.purpose IN
          IF latest_is_migrating(p)
          THEN /\ last'.result = "Ok"
               /\ KeysNext(p)[1].version = Newest(p).version
               /\ KeysNext(p)[1].status = "Active"
               /\ KeysNext(p)[1].migration_progress = ProgressOne
          ELSE /\ last'.result # "Ok"
               /\ versioned_keys' = Began
               /\ migration_batch_size' = migration_batch_size]_mvars

C5_Witness ==
    /\ last.op = "complete_key_migration"
    /\ last.result = "Ok"
    /\ KeysNow(last.purpose)[1].status = "Active"
    /\ Len(KeysNow(last.purpose)) = MaxRetainedKeys

\* C6: rollback_migration on a purpose whose newest key is Migrating sets that
\* key's migration_progress to 0 and its status to Deprecated, and sets the key
\* whose version is its recorded predecessor Active; otherwise it returns an
\* error.
C6_RollbackMigration ==
    [][last'.op = "rollback_migration" =>
          LET p == last'.purpose IN
          IF latest_is_migrating(p)
          THEN /\ last'.result = "Ok"
               /\ KeysNext(p)[1].version = Newest(p).version
               /\ KeysNext(p)[1].migration_progress = 0
               /\ KeysNext(p)[1].status = "Deprecated"
               /\ Newest(p).predecessor_version # None
               /\ HasVersion(KeysNext(p), Newest(p).predecessor_version[1])
               /\ KeyOf(KeysNext(p), Newest(p).predecessor_version[1]).status = "Active"
          ELSE /\ last'.result # "Ok"
               /\ versioned_keys' = Began]_mvars

C6_Witness ==
    /\ last.op = "rollback_migration"
    /\ last.result = "Ok"
    /\ KeysNow(last.purpose)[1].status = "Deprecated"
    /\ KeysNow(last.purpose)[2].status = "Active"

C9_SupportedVersionsGrow ==
    [][/\ Range(vk.supported_decryption_versions) \subseteq Range(vk'.supported_decryption_versions)
       /\ vk'.version \in Range(vk'.supported_decryption_versions)
       /\ Range(vk'.predecessor_versions) \subseteq Range(vk'.supported_decryption_versions)]_mvars

\* The proof a stored commitment of `device` was computed from, if any.
CommittedProofs(device) ==
    IF device \in DOMAIN commitment_phase
    THEN {pr \in Proofs : commitment_phase[device].commitment_hash
                              = generate_commitment_hash(pr, commitment_phase[device].nonce)}
    ELSE {}

\* C3: for a device that committed c = H(proof, nonce), process_device_reveal
\* with any other proof is rejected with an error, stores no reveal and does
\* not advance the protocol state.
C3_WrongRevealRejected ==
    [][(/\ last'.op = "process_device_reveal"
        /\ \E pr \in CommittedProofs(last'.device) : pr # last'.proof)
           => /\ last'.result = "InvalidCommitmentVerification"
              /\ reveal_phase' = reveal_phase
              /\ protocol_state' = protocol_state
              /\ coordination_state' = coordination_state]_mvars

C3_Witness ==
    /\ last.op = "process_device_reveal"
    /\ last.result = "InvalidCommitmentVerification"
    /\ protocol_state = "RevealPhase"
    /\ \E pr \in CommittedProofs(last.device) : pr # last.proof /\ pr # <<>> /\ last.proof # <<>>

\* C10: protocol_state becomes RevealPhase only when every device listed in
\* participating_devices has a stored commitment.
C10_RevealAfterAllCommitted ==
    [][(protocol_state # "RevealPhase" /\ protocol_state' = "RevealPhase")
           => \A i \in 1..Len(participating_devices') :
                  participating_devices'[i] \in DOMAIN commitment_phase']_mvars

Participating == Range(participating_devices)

\* C11: protocol_state moves to VerificationPhase only once every participating
\* device has a stored reveal that matched its commitment.
C11_VerificationAfterAllRevealed ==
    [][(protocol_state # "VerificationPhase" /\ protocol_state' = "VerificationPhase")
           => \A d \in Range(participating_devices') :
                  /\ d \in DOMAIN reveal_phase'
                  /\ d \in DOMAIN commitment_phase'
                  /\ reveal_phase'[d].rotation_proof \in
                         {pr \in Proofs : commitment_phase'[d].commitment_hash
                              = generate_commitment_hash(pr, commitment_phase'[d].nonce)}]_mvars

\* C12: whenever protocol_state is Completed, every participating device has a
\* VerificationProof.
C12_CompletedOnlyIfAllVerified ==
    protocol_state = "Completed" => Participating \subseteq DOMAIN verification_phase

\* Position of a protocol state along Initialized, CommitmentPhase,
\* RevealPhase, VerificationPhase, Completed | Failed.
PhaseRank(st) ==
    CASE st = "Initialized" -> 0
      [] st = "CommitmentPhase" -> 1
      [] st = "RevealPhase" -> 2
      [] st = "VerificationPhase" -> 3
      [] st = "Completed" -> 4
      [] st = "Failed" -> 4

\* C13: no call to process_device_commitment, process_device_reveal or
\* complete_verification_phase moves protocol_state back to an earlier phase,
\* and Completed and Failed are left only by initiate_cross_device_rotation.
C13_ProtocolOnlyForward ==
    [][last'.op \in {"process_device_commitment", "process_device_reveal",
                     "complete_verification_phase"}
           => /\ PhaseRank(protocol_state') >= PhaseRank(protocol_state)
              /\ protocol_state \in {"Completed", "Failed"}
                     => protocol_state' = protocol_state]_mvars

\* C14: restore_device_access(device, incident) succeeds only if the
\* incident's EmergencyResponse has status Complete; for an unknown incident, an
\* incident without response, or a response that is not Complete it returns an
\* error and leaves the manager, isolated_devices included, as it was.
C14_RestoreOnlyWhenComplete ==
    [][last'.op = "restore_device_access" =>
          LET complete == /\ last'.incident \in DOMAIN emergency.active_incidents
                          /\ last'.incident \in DOMAIN emergency.active_responses
                          /\ emergency.active_responses[last'.incident].status = "Complete"
          IN  /\ last'.result = "Ok" => complete
              /\ ~complete => /\ last'.result # "Ok"
                              /\ emergency' = emergency]_mvars

\* A restore refused for an isolated device whose incident is still being
\* responded to.
C14_Witness ==
    /\ last.op = "restore_device_access"
    /\ last.result = "NotFullyResolved"
    /\ last.target \in emergency.isolated_devices
    /\ last.target \in emergency.active_responses[last.incident].devices_isolated

\* The versions a key records as its predecessors: predecessor_versions in
\* versioned_key.rs, the single predecessor_version in key_rotation.rs.
Predecessors(k) == Range(k.predecessor_versions) \cup Range(k.predecessor_version)

\* C15: a successful create_new_key_version on a purpose that has a key puts a
\* new key at the front of the list with version (major, minor + 1, 0) of the
\* prior newest key, status Migrating and the prior newest version among its
\* predecessors; the prior newest key follows it with status Deprecated and the
\* older keys keep their places.
C15_CreateRotatesKey ==
    [][(last'.op = "create_new_key_version" /\ last'.result = "Ok" /\ HasKey(last'.purpose)) =>
          LET p == last'.purpose
              prior == Newest(p)
              after == KeysNext(p)
          IN  /\ ~latest_is_migrating(p)
              /\ Len(after) = Len(Keys(p)) + 1
              /\ to_string(after[1].version) = <<prior.version.major, prior.version.minor + 1, 0>>
              /\ after[1].status = "Migrating"
              /\ after[1].migration_progress = 0
              /\ prior.version \in Predecessors(after[1])
              /\ after[2] = set_status(prior, "Deprecated")
              /\ \A i \in 3..Len(after) : after[i] = Keys(p)[i - 1]]_mvars

\* A second rotation: the new 1.2.0 key above the deprecated 1.1.0 key.
C15_Witness ==
    /\ last.op = "create_new_key_version"
    /\ last.result = "Ok"
    /\ Versions(KeysNow(last.purpose)) = <<<<1, 2, 0>>, <<1, 1, 0>>, <<1, 0, 0>>>>
    /\ KeysNow(last.purpose)[1].status = "Migrating"
    /\ KeysNow(last.purpose)[2].status = "Deprecated"

\* The call completed a migration: complete_key_migration itself, or the
\* legacy update_migration_progress that calls it at 100%.
CompletedMigration ==
    /\ last'.result = "Ok"
    /\ \/ last'.op = "complete_key_migration"
       \/ /\ last'.op = "update_migration_progress"
          /\ variant = "legacy"
          /\ KeysNext(last'.purpose)[1].status = "Active"

\* C16: after every successful complete_key_migration the purpose's list holds
\* at most MaxRetainedKeys (3) keys, and they are the most recent versions: the
\* front of the list as it was, each retained version newer than each removed
\* one.
C16_RetainsThreeNewest ==
    [][CompletedMigration =>
          LET before == Keys(last'.purpose)
              after == KeysNext(last'.purpose)
              n == IF Len(before) > MaxRetainedKeys THEN MaxRetainedKeys ELSE Len(before)
          IN  /\ Len(after) = n
              /\ Versions(after) = SubSeq(Versions(before), 1, n)
              /\ \A i \in 1..n : \A j \in (n + 1)..Len(before) :
                     compare_version(after[i].version, before[j].version) = 1]_mvars

\* The fourth key's migration completed and the oldest key, 1.0.0, is gone.
C16_Witness ==
    /\ last.op \in {"complete_key_migration", "update_migration_progress"}
    /\ last.result = "Ok"
    /\ Versions(KeysNow(last.purpose)) = <<<<1, 3, 0>>, <<1, 2, 0>>, <<1, 1, 0>>>>
    /\ KeysNow(last.purpose)[1].status = "Active"

\* C17: every operation that changes the status of a VersionedKey appends
\* exactly one entry to that key's audit_log (audit_log counts the entries the
\* call pushed onto the key, and nothing ever removes an entry).
C17_OneAuditEntryPerStatusChange ==
    [][(/\ last'.op \in {"set_status", "transition_to_version"}
        /\ last'.result = "Ok"
        /\ vk'.status # vk.status) => vk'.audit_log = 1]_mvars

\* What should_trigger_rotation is to return: age_hours >= max_age_days * 24
\* is written age_hours \div 24 >= max_age_days, the same test on naturals.
ShouldTrigger(pol, age_hours, usage_count, event) ==
    IF /\ event # None
       /\ pol.emergency_rotation_enabled
       /\ event[1] \in Range(pol.security_event_triggers)
    THEN TRUE
    ELSE CASE pol.trigger_type = "TimeBased" -> (age_hours \div HoursPerDay) >= pol.max_age_days
           [] pol.trigger_type = "UsageBased" ->
                  pol.max_usage_count # None /\ usage_count >= pol.max_usage_count[1]
           [] pol.trigger_type = "EventBased" -> event # None
           [] pol.trigger_type = "Manual" -> FALSE
           [] pol.trigger_type = "Emergency" -> TRUE

\* C18: should_trigger_rotation(age_hours, usage_count, event) returns true
\* whenever the event is one of security_event_triggers and
\* emergency_rotation_enabled is set, whatever the trigger_type; otherwise
\* TimeBased -> age_hours >= max_age_days * 24, UsageBased -> usage_count >=
\* max_usage_count (false if unset), EventBased -> an event is present,
\* Manual -> false, Emergency -> true.
C18_ShouldTriggerRotation ==
    [][last'.op = "should_trigger_rotation" =>
          last'.result = Bool(ShouldTrigger(policy, last'.age_hours, last'.usage_count,
                                            last'.event))]_mvars

StatusRank(status) ==
    CASE status = "Detected" -> 0
      [] status = "Responding" -> 1
      [] status = "Isolating" -> 2
      [] status = "Rotating" -> 3
      [] status = "Recovering" -> 4
      [] status \in {"Complete", "Failed"} -> 5

\* C21: the status of an EmergencyResponse only moves forward along Detected,
\* Responding, Isolating, Rotating, Recovering, Complete | Failed: no call moves
\* it to an earlier status, and Complete and Failed are never left.
C21_ResponseStatusForward ==
    [][\A id \in DOMAIN emergency.active_responses :
          LET old == emergency.active_responses[id].status
              new == emergency'.active_responses[id].status
          IN  /\ StatusRank(new) >= StatusRank(old)
              /\ old \in {"Complete", "Failed"} => new = old]_mvars

\* The call started the response of incident last'.incident and returned Ok.
ResponseStarted ==
    /\ last'.result = "Ok"
    /\ \/ last'.op = "initiate_emergency_response"
       \/ /\ last'.op = "trigger_emergency_rotation"
          /\ last'.incident \in DOMAIN emergency'.active_responses

\* C22: starting the emergency response of an incident with severity >= 8
\* isolates every affected device of the incident, whatever the trigger type;
\* for CompromisedDevice and SystemIntrusion incidents it does so at any
\* severity.
C22_ResponseIsolatesAffected ==
    [][ResponseStarted =>
          LET incident == emergency'.active_incidents[last'.incident]
          IN  (\/ incident.severity >= IsolationSeverity
               \/ incident.trigger_type \in {"CompromisedDevice", "SystemIntrusion"})
              => Range(incident.affected_devices) \subseteq emergency'.isolated_devices]_mvars

\* C23: key invalidation is irreversible: a key that invalidate_key recorded
\* stays invalidated through every later call (initiate_recovery and
\* restore_device_access included), invalidate_key records the key even when
\* its audit event is not logged, and every InvalidateKey action of a response
\* has rollback_available = false.
C23_InvalidationIrreversible ==
    [][/\ \A k \in KeyIds : is_key_invalidated(emergency, k) => is_key_invalidated(emergency', k)
       /\ last'.op = "invalidate_key" => is_key_invalidated(emergency', last'.target)
       /\ \A id \in DOMAIN emergency'.active_responses :
              \A a \in emergency'.active_responses[id].actions_taken :
                  a.action_type = "InvalidateKey" => ~a.rollback_available]_mvars

\* A device's access was restored after the recovery of an incident whose
\* response holds an invalidated key, and the key is still invalidated.
C23_Witness ==
    /\ last.op = "restore_device_access"
    /\ last.result = "Ok"
    /\ \E k \in KeyIds :
           /\ is_key_invalidated(emergency, k)
           /\ k \in emergency.active_responses[last.incident].keys_invalidated
           /\ EmergencyAction("InvalidateKey", k, FALSE)
                  \in emergency.active_responses[last.incident].actions_taken

\* The call ran initiate_emergency_response on an incident it found, whatever
\* it returned.
ResponseAttempted ==
    \/ /\ last'.op = "initiate_emergency_response"
       /\ last'.incident \in DOMAIN emergency.active_incidents
    \/ /\ last'.op = "trigger_emergency_rotation"
       /\ last'.incident \in DOMAIN emergency'.active_responses

\* C25: a failed audit-log write never blocks the state operation: whether or
\* not the audit event is logged, isolate_device isolates the device,
\* invalidate_key invalidates the key, restore_device_access restores the
\* device, execute_emergency_rotation puts the response into Rotating, and a
\* started emergency response isolates every device it is to isolate and
\* generates the recovery plan.
C25_AuditFailureDoesNotBlock ==
    [][/\ last'.op = "isolate_device" => last'.target \in emergency'.isolated_devices
       /\ last'.op = "invalidate_key" => last'.target \in emergency'.invalidated_keys
       /\ (last'.op = "restore_device_access" /\ last'.result = "FailedToLogAccessRestoration")
              => last'.target \notin emergency'.isolated_devices
       /\ (last'.op = "execute_emergency_rotation"
           /\ last'.incident \in DOMAIN emergency.active_responses)
              => emergency'.active_responses[last'.incident].status = "Rotating"
       /\ ResponseAttempted =>
              LET incident == emergency'.active_incidents[last'.incident]
              IN  /\ Range(immediate_isolation_targets(incident))
                         \subseteq emergency'.isolated_devices
                  /\ last'.incident \in emergency'.recovery_plans]_mvars

PairingAtCapacity ==
    /\ last'.op = "process_pairing_request"
    /\ device_count(multi_device) = multi_device.max_devices

RequestInTime(timestamp) == timestamp <= DateNow /\ DateNow - timestamp <= MaxPairingAgeMs

RecoveryRejections ==
    {"Invalid recovery phrase", "Recovery phrase does not match backup", "Passkey authentication failed"}

\* C27: a failed initiate_recovery for an existing, unlocked backup raises its
\* attempt count by exactly one and no other count; once the count has reached
\* max_attempts the backup is locked: every initiate_recovery for it is rejected
\* as locked, whatever the phrase, and changes nothing, and the backup stays
\* locked until reset_attempt_count is called for it.
C27_AttemptLimiting ==
    [][\A b \in BackupIds :
        /\ (last'.op = "initiate_recovery" /\ last'.backup = b /\ is_backup_locked(recovery, b)) =>
              /\ last'.result = "Recovery attempts exceeded - account locked"
              /\ recovery' = recovery
        /\ (/\ last'.op = "initiate_recovery" /\ last'.backup = b
            /\ ~is_backup_locked(recovery, b)
            /\ b \in DOMAIN recovery.key_backups
            /\ last'.result # "Ok") =>
              /\ last'.result \in RecoveryRejections
              /\ get_attempt_count(recovery', b) = get_attempt_count(recovery, b) + 1
              /\ \A o \in BackupIds \ {b} : get_attempt_count(recovery', o) = get_attempt_count(recovery, o)
              /\ recovery'.key_backups = recovery.key_backups
        /\ (is_backup_locked(recovery, b) /\ ~is_backup_locked(recovery', b)) =>
              (last'.op = "reset_attempt_count" /\ last'.backup = b)
      ]_mvars

\* A backup that took two failed attempts out of two has just turned the
\* matching phrase away as locked.
C27_Witness ==
    /\ last.op = "initiate_recovery"
    /\ last.result = "Recovery attempts exceeded - account locked"
    /\ recovery.max_attempts = MaxMaxAttempts
    /\ last.backup \in DOMAIN recovery.key_backups
    /\ get_attempt_count(recovery, last.backup) = MaxMaxAttempts
    /\ RecoveryPhrase_validate(last.phrase[1])
    /\ simple_hash(last.phrase[1].phrase_string) = recovery.key_backups[last.backup].recovery_phrase_hash

\* C28: for a known migration each process_next_batch call raises current_batch
\* by exactly one and adds the reported processed and failed counts to the
\* checkpoint's totals; the batch is accepted (success = true) also when it
\* reports failures; is_complete is reported exactly when current_batch >=
\* total_batches; for an unknown migration id the call reports failure and
\* changes no checkpoint.
C28_ProcessNextBatch ==
    [][\A m \in MigrationIds :
        (last'.op = "process_next_batch" /\ last'.migration = m) =>
            IF m \in DOMAIN migration.migration_state
            THEN LET old == migration.migration_state[m]
                     new == migration'.migration_state[m]
                 IN  /\ new.current_batch = old.current_batch + 1
                     /\ <<0>> \o new.processed_count = exact_add(old.processed_count, last'.processed_count)
                     /\ <<0>> \o new.failed_count = exact_add(old.failed_count, last'.failed_count)
                     /\ last'.result = "success"
                     /\ last'.is_complete <=> new.current_batch >= new.total_batches
            ELSE /\ last'.result = "Migration not found"
                 /\ migration' = migration
      ]_mvars

\* C29: each track_key_usage(purpose) raises that purpose's usage counter by
\* exactly one and no other counter; when the counter has then reached the
\* max_usage_count of the purpose's policy, is_rotation_due(purpose) is true
\* right after the call; with no max_usage_count set (or no policy) the
\* schedule is left as it was.
C29_UsageTriggersRotation ==
    [][\A p \in UsagePurposes :
        (last'.op = "track_key_usage" /\ last'.purpose = p) =>
            /\ get_usage_count(scheduler', p) = get_usage_count(scheduler, p) + 1
            /\ \A q \in UsagePurposes \ {p} : get_usage_count(scheduler', q) = get_usage_count(scheduler, q)
            /\ (/\ p \in DOMAIN scheduler.rotation_policies
                /\ scheduler.rotation_policies[p].max_usage_count # None
                /\ get_usage_count(scheduler', p) >= scheduler.rotation_policies[p].max_usage_count[1])
               => is_rotation_due(scheduler', p)
            /\ (\/ p \notin DOMAIN scheduler.rotation_policies
                \/ scheduler.rotation_policies[p].max_usage_count = None)
               => /\ scheduler'.next_rotations = scheduler.next_rotations
                  /\ scheduler'.rotation_intervals = scheduler.rotation_intervals
            /\ scheduler'.rotation_policies = scheduler.rotation_policies
      ]_mvars

\* A purpose that was not due has just become due by reaching a positive
\* max_usage_count.
C29_Witness ==
    /\ last.op = "track_key_usage"
    /\ last.purpose \in DOMAIN scheduler.rotation_policies
    /\ scheduler.rotation_policies[last.purpose].max_usage_count = Some(MaxTrackedUsage - 1)
    /\ get_usage_count(scheduler, last.purpose) = MaxTrackedUsage - 1
    /\ scheduler.rotation_policies[last.purpose].max_age_days > 0
    /\ now > 0
    /\ scheduler.next_rotations[last.purpose] = now
    /\ is_rotation_due(scheduler, last.purpose)

MirroredStates ==
    {<<"CommitmentPhase", "WaitingForDevices">>, <<"RevealPhase", "RotationInProgress">>,
     <<"VerificationPhase", "VerifyingCompletion">>, <<"Completed", "Completed">>,
     <<"Failed", "Failed">>}

\* C30: once a rotation has been initiated the coordination state mirrors the
\* protocol state in every reachable state: CommitmentPhase with
\* WaitingForDevices, RevealPhase with RotationInProgress, VerificationPhase
\* with VerifyingCompletion, Completed with Completed and Failed with Failed.
C30_CoordinationMirrorsProtocol ==
    \/ protocol_state = "Initialized" /\ coordination_state = "Initiating"
    \/ <<protocol_state, coordination_state>> \in MirroredStates

\* C31: starting the emergency response of a KeyExposureRisk incident
\* invalidates keys: when the call has returned, the response holds at least one
\* InvalidateKey action, its keys_invalidated is not empty and its keys are in
\* invalidated_keys.
C31_KeyExposureInvalidatesKeys ==
    [][ResponseStarted =>
          LET incident == emergency'.active_incidents[last'.incident]
              response == emergency'.active_responses[last'.incident]
          IN  incident.trigger_type = "KeyExposureRisk" =>
                /\ response.keys_invalidated # {}
                /\ \E a \in response.actions_taken : a.action_type = "InvalidateKey"
                /\ response.keys_invalidated \subseteq emergency'.invalidated_keys]_mvars

ActiveKeys(p) == {i \in 1..Len(versioned_keys[p]) : versioned_keys[p][i].status = "Active"}

C33_CommitmentIsBinding ==
    [][\A d \in DOMAIN commitment_phase :
          (last'.op = "process_device_commitment" /\ last'.device = d) =>
              /\ commitment_phase'[d].commitment_hash = commitment_phase[d].commitment_hash
              /\ commitment_phase'[d].nonce = commitment_phase[d].nonce]_mvars

\* C34: no reveal is accepted before the reveal phase: process_device_reveal
\* stores a reveal only while protocol_state is RevealPhase, and while
\* protocol_state is CommitmentPhase the reveal_phase map is empty.
C34_NoRevealBeforeRevealPhase ==
    /\ [](protocol_state = "CommitmentPhase" => reveal_phase = <<>>)
    /\ [][(last'.op = "process_device_reveal" /\ reveal_phase' # reveal_phase)
             => protocol_state = "RevealPhase"]_mvars

\* C35: a create_new_key_version call that fails because a migration is in
\* progress leaves the manager unchanged: every purpose's key list, each key's
\* status, predecessors and migration_progress are as before, the call pushed
\* no audit entry, and the scheduler (next rotation times included) is as
\* before.
C35_RejectedCreateChangesNothing ==
    [][(last'.op = "create_new_key_version" /\ last'.result = "MigrationInProgress") =>
          /\ DOMAIN versioned_keys' = DOMAIN versioned_keys
          /\ \A q \in DOMAIN versioned_keys :
                /\ began_log(versioned_keys'[q]) = began_log(versioned_keys[q])
                /\ \A i \in 1..Len(versioned_keys'[q]) : versioned_keys'[q][i].audit_log = 0
          /\ scheduler'.next_rotations = scheduler.next_rotations
          /\ scheduler' = scheduler
          /\ migration_batch_size' = migration_batch_size]_mvars

\* A create was rejected while the purpose stood forced due under a policy
\* whose interval would have moved the next rotation.
C35_Witness ==
    /\ last.op = "create_new_key_version"
    /\ last.result = "MigrationInProgress"
    /\ last.purpose \in DOMAIN scheduler.next_rotations
    /\ last.purpose \in DOMAIN scheduler.rotation_intervals
    /\ scheduler.rotation_intervals[last.purpose] > 0
    /\ scheduler.next_rotations[last.purpose] = now
    /\ Len(versioned_keys[last.purpose]) >= 2

BatchProcessed(m) ==
    /\ last'.op = "process_next_batch"
    /\ last'.migration = m
    /\ m \in DOMAIN migration.migration_state

\* C36 as stated: in every reachable state of a checkpoint current_batch <=
\* total_batches, and process_next_batch called on an already complete
\* migration neither advances current_batch nor adds to processed_count or
\* failed_count.
C36_Original ==
    /\ [](\A m \in DOMAIN migration.migration_state :
             migration.migration_state[m].current_batch <= migration.migration_state[m].total_batches)
    /\ [][\A m \in MigrationIds :
            (/\ BatchProcessed(m)
             /\ migration.migration_state[m].current_batch >= migration.migration_state[m].total_batches)
            => migration'.migration_state[m] = migration.migration_state[m]]_mvars

\* C36 amended: process_next_batch has no completeness guard: every call on a
\* known migration advances current_batch by one, also on an already complete
\* migration, where it reports is_complete again when it returns; so
\* current_batch <= total_batches holds after a call made on an incomplete
\* migration and current_batch > total_batches after a call made on a complete
\* one.
C36_BatchAdvancesPastTotal ==
    [][\A m \in MigrationIds :
        BatchProcessed(m) =>
            LET old == migration.migration_state[m]
                new == migration'.migration_state[m]
            IN  /\ new.current_batch = old.current_batch + 1
                /\ new.total_batches = old.total_batches
                /\ old.current_batch < old.total_batches => new.current_batch <= new.total_batches
                /\ old.current_batch >= old.total_batches =>
                      /\ new.current_batch > new.total_batches
                      /\ last'.result = "success" => last'.is_complete]_mvars

\* A migration of one batch has been processed a second time.
C36_Witness ==
    /\ last.op = "process_next_batch"
    /\ last.result = "success"
    /\ last.is_complete
    /\ last.migration \in DOMAIN migration.migration_state
    /\ migration.migration_state[last.migration].total_batches = 1
    /\ migration.migration_state[last.migration].current_batch = 2

StrictlyDecreasing(keys) ==
    \A i \in 1..Len(keys) : \A j \in (i + 1)..Len(keys) :
        compare_version(keys[i].version, keys[j].version) = 1

\* C37: within a purpose the key versions are strictly decreasing from the
\* front of the list to the back, a list that exists is never emptied and its
\* front version never goes down, and every successful create_new_key_version
\* puts at the front a version strictly greater than every version in the list
\* before it; so the front is the greatest version ever issued for the purpose
\* and no version is issued twice, also after cleanup_expired_keys and pruning.
C37_VersionsStrictlyDecreasing ==
    /\ [](\A p \in DOMAIN versioned_keys : StrictlyDecreasing(versioned_keys[p]))
    /\ [][\A p \in DOMAIN versioned_keys :
            /\ p \in DOMAIN versioned_keys'
            /\ versioned_keys[p] # <<>> =>
                  /\ versioned_keys'[p] # <<>>
                  /\ compare_version(versioned_keys'[p][1].version, versioned_keys[p][1].version) >= 0
            /\ (last'.op = "create_new_key_version" /\ last'.result = "Ok" /\ last'.purpose = p) =>
                  \A i \in 1..Len(versioned_keys[p]) :
                      compare_version(versioned_keys'[p][1].version, versioned_keys[p][i].version) = 1
       ]_mvars

\* The fourth version of a purpose has just been issued.
C37_Witness ==
    /\ last.op = "create_new_key_version"
    /\ last.result = "Ok"
    /\ Len(versioned_keys[last.purpose]) = 4
    /\ versioned_keys[last.purpose][1].version.minor = 3
    /\ versioned_keys[last.purpose][2].status = "Deprecated"
    /\ StrictlyDecreasing(versioned_keys[last.purpose])

\* C38: a device whose registry status is Revoked does not become Trusted in
\* one call: only reenroll_device or a fresh process_pairing_request (both to
\* Pending) lead out of Revoked, so finalize_pairing(validated = true) on a
\* Revoked device leaves it untrusted and validate_device_auth stays false for
\* it.
C38_RevokedNeverTrustedDirectly ==
    [][\A d \in DOMAIN multi_device.device_registry :
          multi_device.device_registry[d].status = "Revoked" =>
              /\ multi_device'.device_registry[d].status # "Trusted"
              /\ ~validate_device_auth(multi_device', d,
                                       trust_token(d, multi_device'.device_registry[d].created_at))
      ]_mvars

\* The next rotation time the scheduler holds for a purpose, if any.
next_rotation_time(sch, p) ==
    IF p \in DOMAIN sch.next_rotations THEN Some(sch.next_rotations[p]) ELSE None

C40_ReturnedSchedulerReflectsManager ==
    last.op = "get_scheduler" =>
        \A p \in Purposes :
            /\ is_rotation_due(last.returned, p) = is_rotation_due(scheduler, p)
            /\ next_rotation_time(last.returned, p) = next_rotation_time(scheduler, p)

====
